---- MODULE Spec2Model ----
(***************************************************************************)
(* lambtrip: an http.RoundTripper that invokes an AWS Lambda function.     *)
(* The module models one RoundTrip call, either of the BufferedTransport   *)
(* (Invoke, then decode the payload) or of the ResponseStreamTransport     *)
(* (InvokeWithResponseStream, handleStreamingPrelude, then the lazy        *)
(* streamingBody), together with the event stream the SDK delivers and     *)
(* the request context that can be cancelled.                              *)
(*                                                                         *)
(* Bytes are naturals; 0 is the NUL byte, 123 and 125 are '{' and '}',     *)
(* 72 and 105 are 'H' and 'i'.  Optional strings (Go pointers to string)    *)
(* are sequences: <<>> is the nil pointer and <<s>> a pointer to s.        *)
(* Bodies, and the header names and values of a request, are Go strings    *)
(* or byte slices and are modelled as sequences of bytes.                  *)
(*                                                                         *)
(* Spec and LiveSpec are the two transports.  EncoderSpec is the request   *)
(* encoder on its own: its initial states are the requests, and its        *)
(* actions apply isBinary, buildRequest and newRequestID to them.          *)
(* ChunkSpec is the streaming transport on byte streams cut into chunks in *)
(* every way, ended by a clean completion event.  PairSpec is two          *)
(* streaming responses of one transport, read, cancelled and closed in     *)
(* any interleaving.  DrainSpec is the streaming transport on a finite     *)
(* event sequence, delivered in full and followed by the closing of the    *)
(* channel, with a consumer that goes on calling Read.                     *)
(*                                                                         *)
(* The events channel is the SDK's: unbuffered, so at most one event is    *)
(* on offer at a time; the completion event is the last event; once the    *)
(* stream has failed no further event is offered; the channel is closed    *)
(* when the SDK's reader ends.  A select with several ready cases takes    *)
(* any of them.  The body has one reader, which calls Read and Close in    *)
(* sequence and makes no Read after Close.                                 *)
(***************************************************************************)
EXTENDS Integers, Sequences, FiniteSets

\* ------------------------------------------------------------------ bounds
\* number of payload-chunk / unknown events the stream may deliver
MaxEvents == 3
\* largest len(p) a caller passes to Read
MaxRead == 2

\* ------------------------------------------------------- values and errors
NoCode == <<>>

\* aws.ToString: the pointed-to string, "" for a nil pointer
AwsToString(p) == IF p = <<>> THEN "" ELSE p[1]

MkErr(k, c, d) == [kind |-> k, code |-> c, details |-> d, status |-> 0, payload |-> ""]
ErrNil == MkErr("nil", "", "")
ErrEOF == MkErr("EOF", "", "")
ErrUnexpectedEOF == MkErr("ErrUnexpectedEOF", "", "")
ErrCanceled == MkErr("Canceled", "", "")
ErrUnexpectedEventType == MkErr("UnexpectedEventType", "", "")
ErrJSON == MkErr("JSONError", "", "")
ErrStream == MkErr("StreamErr", "", "")
ErrInvoke == MkErr("InvokeError", "", "")
ErrEncode == MkErr("EncodeError", "", "")
ErrPending == MkErr("pending", "", "")
ErrBody == MkErr("BodyError", "", "")
ResponseStreamError(c, d) == MkErr("ResponseStreamError", c, d)
\* &LambdaError{StatusCode: st, Payload: p}
LambdaError(st, p) == [kind |-> "LambdaError", code |-> "", details |-> "", status |-> st, payload |-> p]

\* ------------------------------------------------------------------ events
PayloadChunk(b) == [kind |-> "chunk", payload |-> b, code |-> NoCode, details |-> NoCode]
InvokeComplete(c, d) == [kind |-> "complete", payload |-> <<>>, code |-> c, details |-> d]
UnknownEvent == [kind |-> "unknown", payload |-> <<>>, code |-> NoCode, details |-> NoCode]
\* what a receive from the closed, drained channel yields: the nil interface
NilEvent == [kind |-> "nil", payload |-> <<>>, code |-> NoCode, details |-> NoCode]
\* no event received: the call returned without a receive, or has not returned
NoEvent == [kind |-> "none", payload |-> <<>>, code |-> NoCode, details |-> NoCode]

\* the payloads the function may send in one chunk
Payloads ==
    { <<>>,
      <<123, 125>>,
      <<0, 0, 0, 0, 0, 0, 0, 0>>,
      <<123, 125, 0, 0, 0, 0>>,
      <<0, 0, 0, 0, 72>>,
      <<72, 105>> }

\* the completion events: clean, or carrying an error code and/or details
Completions ==
    { InvokeComplete(c, d) : c \in {<<>>, <<"ERR">>, <<"">>}, d \in {<<>>, <<"msg">>} }

\* ------------------------------------------------------------ pure helpers
separate == <<0, 0, 0, 0, 0, 0, 0, 0>>

Min(a, b) == IF a < b THEN a ELSE b

\* s[from:] and s[:to] of Go, 0-based
SliceFrom(s, from) == SubSeq(s, from + 1, Len(s))
SliceTo(s, to) == SubSeq(s, 1, to)

\* bytes.Index: 0-based index of the leftmost occurrence of sep in s, -1 if none
BytesIndex(s, sep) ==
    LET hits == { i \in 0 .. (Len(s) - Len(sep)) : SubSeq(s, i + 1, i + Len(sep)) = sep }
    IN  IF hits = {} THEN -1 ELSE CHOOSE i \in hits : \A j \in hits : i <= j

\* the zero value of the response struct
ZeroResponse == [StatusCode |-> 0, Headers |-> << >>, Body |-> <<>>, IsBase64Encoded |-> FALSE, Cookies |-> << >>]

\* preludes a function may send, as bytes
\* {}
PreludeEmptyObject == <<123, 125>>
\* {"statusCode":404,"body":"x"}
PreludeNotFound ==
    <<123, 34, 115, 116, 97, 116, 117, 115, 67, 111, 100, 101, 34, 58, 52, 48, 52, 44, 34,
      98, 111, 100, 121, 34, 58, 34, 120, 34, 125>>
\* {"statusCode":201,"headers":{"content-type":"text/plain","content-length":"999"},"cookies":["a=1","b=2"]}
PreludeCreated ==
    <<123, 34, 115, 116, 97, 116, 117, 115, 67, 111, 100, 101, 34, 58, 50, 48, 49, 44, 34,
      104, 101, 97, 100, 101, 114, 115, 34, 58, 123, 34, 99, 111, 110, 116, 101, 110, 116,
      45, 116, 121, 112, 101, 34, 58, 34, 116, 101, 120, 116, 47, 112, 108, 97, 105, 110,
      34, 44, 34, 99, 111, 110, 116, 101, 110, 116, 45, 108, 101, 110, 103, 116, 104, 34,
      58, 34, 57, 57, 57, 34, 125, 44, 34, 99, 111, 111, 107, 105, 101, 115, 34, 58, 91,
      34, 97, 61, 49, 34, 44, 34, 98, 61, 50, 34, 93, 125>>

\* json.Unmarshal(prelude, &resp): "{}" leaves resp at its zero value, the two
\* objects above set the fields they name, and every other byte string the
\* model sends (over NUL, 'H', 'i', '{', '}') is not a JSON text
UnmarshalPrelude(b) ==
    CASE b = PreludeEmptyObject -> [err |-> ErrNil, resp |-> ZeroResponse]
      [] b = PreludeNotFound ->
             [err |-> ErrNil,
              resp |-> [ZeroResponse EXCEPT !.StatusCode = 404, !.Body = <<120>>]]
      [] b = PreludeCreated ->
             [err |-> ErrNil,
              resp |-> [ZeroResponse EXCEPT !.StatusCode = 201,
                                            !.Headers = [k \in {"content-type", "content-length"} |->
                                                            IF k = "content-type" THEN "text/plain"
                                                            ELSE "999"],
                                            !.Cookies = <<"a=1", "b=2">>]]
      [] OTHER -> [err |-> ErrJSON, resp |-> ZeroResponse]

\* http.StatusOK
StatusOK == 200

\* response.statusCode
statusCode(r) == IF r.StatusCode = 0 THEN StatusOK ELSE r.StatusCode

\* strconv.Itoa / strconv.FormatInt(n, 10)
Digit(d) ==
    CASE d = 0 -> "0" [] d = 1 -> "1" [] d = 2 -> "2" [] d = 3 -> "3" [] d = 4 -> "4"
      [] d = 5 -> "5" [] d = 6 -> "6" [] d = 7 -> "7" [] d = 8 -> "8" [] d = 9 -> "9"

RECURSIVE Itoa(_)
Itoa(n) ==
    IF n < 0 THEN "-" \o Itoa(0 - n)
    ELSE IF n < 10 THEN Digit(n)
    ELSE Itoa(n \div 10) \o Digit(n % 10)

\* http.StatusText on the status codes a payload below carries: the reason
\* phrase of a registered code, "" for any other
StatusText(code) ==
    CASE code = 200 -> "OK"
      [] code = 201 -> "Created"
      [] code = 403 -> "Forbidden"
      [] code = 404 -> "Not Found"
      [] code = 500 -> "Internal Server Error"
      [] OTHER -> ""

\* response.status
status(r) ==
    LET code == statusCode(r)
        text == StatusText(code)
    IN  IF text = "" THEN Itoa(code) ELSE Itoa(code) \o " " \o text

\* textproto.CanonicalMIMEHeaderKey on the header names a payload below carries
CanonicalMIMEHeaderKey(k) ==
    CASE k = "content-type" -> "Content-Type"
      [] k = "content-length" -> "Content-Length"
      [] k = "x-powered-by" -> "X-Powered-By"
      [] k = "set-cookie" -> "Set-Cookie"
      [] OTHER -> k

\* http.Header is a map from canonical name to the list of values
NoHeader == << >>
\* http.Header.Set, http.Header.Add and http.Header.Get, called with a canonical name
HeaderSet(h, k, v) == [x \in (DOMAIN h) \cup {k} |-> IF x = k THEN <<v>> ELSE h[x]]
HeaderAdd(h, k, v) ==
    [x \in (DOMAIN h) \cup {k} |->
        IF x = k THEN (IF k \in DOMAIN h THEN Append(h[k], v) ELSE <<v>>) ELSE h[x]]
HeaderGet(h, k) == IF k \in DOMAIN h /\ Len(h[k]) > 0 THEN h[k][1] ELSE ""

\* mutant: every cookie replaces the Set-Cookie values before it
RECURSIVE AddCookies_Replaces(_, _)
AddCookies_Replaces(h, cookies) ==
    IF cookies = <<>> THEN h
    ELSE AddCookies_Replaces(HeaderSet(h, "Set-Cookie", Head(cookies)), Tail(cookies))

RECURSIVE AddCookies(_, _)
AddCookies(h, cookies) ==
    IF cookies = <<>> THEN h
    ELSE AddCookies(HeaderAdd(h, "Set-Cookie", Head(cookies)), Tail(cookies))

\* mutant: a missing Content-Type is left missing
DefaultContentType_None(h) == h

\* response.header, lines 102-104: the default Content-Type
DefaultContentType(h) ==
    IF HeaderGet(h, "Content-Type") = "" THEN HeaderSet(h, "Content-Type", "application/json")
    ELSE h

\* response.header.  r.Headers maps each wire name to one value; no payload
\* below carries two names of one canonical form, so the order in which the
\* map is ranged over does not show
header(r) ==
    LET names == DOMAIN r.Headers
        set == [c \in { CanonicalMIMEHeaderKey(k) : k \in names } |->
                   << r.Headers[CHOOSE k \in names : CanonicalMIMEHeaderKey(k) = c] >>]
    IN  DefaultContentType(AddCookies(set, r.Cookies))

\* ------------------------------------------------------------------- state
VARIABLES
    pc,            \* where the RoundTrip call / the body's reader stands
    ctxDone,       \* the request context has been cancelled
    invokes,       \* calls made to the invocation client
    invIn,         \* the input of the last invocation (function name, qualifier)
    invOut,        \* the InvokeOutput of the buffered invocation
    unmarshalled,  \* history: json.Unmarshal was applied to invOut.Payload
    rtErr,         \* the error RoundTrip returned (ErrPending until it returns)
    rtResp,        \* the response RoundTrip returned
    ch,            \* the event offered on stream.Events() and not yet received
    chClosed,      \* the SDK has closed the events channel
    streamErr,     \* what stream.Err() reports
    streamClosed,  \* stream.Close() has been called
    acc,           \* buf of handleStreamingPrelude
    buf,           \* streamingBody.buf, the leftover bytes
    plen,          \* len(p) of the Read that is waiting in select
    readN,         \* n returned by the last Read
    readErr,       \* err returned by the last Read (ErrPending before any)
    sent,          \* history: every event the stream has offered, in order
    nPrelude,      \* history: how many events handleStreamingPrelude received
    lastEvent,     \* history: what the select of the last call to return received
    delivered,     \* history: the bytes the Reads have returned, concatenated
    firstErr,      \* history: the first non-nil error a Read returned
    reads,         \* history: the Reads that returned, up to the first non-nil error
    fnCall,        \* the function of the request encoder applied, its argument and result
    script,        \* the events a scripted function has still to send
    bodies         \* the streamingBody values of two responses of one transport

streamVars == <<ch, chClosed, streamErr, streamClosed, sent>>
bodyVars == <<buf, plen, readN, readErr, delivered, firstErr, reads>>
callVars == <<invokes, invIn, invOut, unmarshalled, fnCall, script, bodies>>
vars == <<pc, ctxDone, callVars, rtErr, rtResp, acc, nPrelude, lastEvent, streamVars, bodyVars>>
\* the state of a RoundTrip call
callState ==
    <<pc, ctxDone, invokes, invIn, invOut, unmarshalled, rtErr, rtResp, acc, nPrelude, lastEvent,
      streamVars, bodyVars>>
transportVars == <<callState, script, bodies>>

NoResponse ==
    [present |-> FALSE, Status |-> "", StatusCode |-> 0, Header |-> NoHeader, Body |-> <<>>,
     ContentLength |-> 0]
\* mutant: the response carries the wire status code as it is
Response_RawStatusCode(r) ==
    [present |-> TRUE, Status |-> status(r), StatusCode |-> r.StatusCode, Header |-> header(r),
     Body |-> <<>>, ContentLength |-> -1]

\* the http.Response of the streaming transport: the body is the streamingBody
Response(r) ==
    [present |-> TRUE, Status |-> status(r), StatusCode |-> statusCode(r), Header |-> header(r),
     Body |-> <<>>, ContentLength |-> -1]

NoInput == [FunctionName |-> "", Qualifier |-> <<>>]
NoOutput == [StatusCode |-> 0, Payload |-> ""]

InitTransport ==
    /\ pc = "start"
    /\ ctxDone = FALSE
    /\ invokes = 0
    /\ invIn = NoInput
    /\ invOut = NoOutput
    /\ unmarshalled = FALSE
    /\ rtErr = ErrPending
    /\ rtResp = NoResponse
    /\ ch = <<>>
    /\ chClosed = FALSE
    /\ streamErr = ErrNil
    /\ streamClosed = FALSE
    /\ acc = <<>>
    /\ buf = <<>>
    /\ plen = 0
    /\ readN = 0
    /\ readErr = ErrPending
    /\ sent = <<>>
    /\ nPrelude = 0
    /\ lastEvent = NoEvent
    /\ delivered = <<>>
    /\ firstErr = ErrNil
    /\ reads = 0

\* no function of the request encoder is being applied
NoCall == [fn |-> "none", arg |-> <<>>, res |-> <<>>]
\* the function sends what it likes: no script
NoScript == <<>>
\* no pair of responses is being read
NoBodies == <<>>

Init ==
    /\ InitTransport
    /\ fnCall = NoCall
    /\ script = NoScript
    /\ bodies = NoBodies

\* ------------------------------------------------- the SDK's event stream
StreamOpen == pc \in {"prelude", "idle", "read"} /\ ~streamClosed /\ ~chClosed

Completed == \E i \in 1 .. Len(sent) : sent[i].kind = "complete"

\* the reader goroutine of the SDK offers the next event on the unbuffered
\* channel; the completion event is the last one
Produce(ev) ==
    /\ StreamOpen
    /\ ch = <<>>
    /\ streamErr = ErrNil
    /\ ~Completed
    /\ ev.kind = "complete" \/ Len(sent) < MaxEvents
    /\ ch' = <<ev>>
    /\ sent' = Append(sent, ev)
    /\ UNCHANGED <<pc, ctxDone, callVars, rtErr, rtResp, acc, nPrelude, lastEvent,
                   chClosed, streamErr, streamClosed, bodyVars>>

\* the reader goroutine ends and closes the channel: after the completion
\* event, after an error, or because the connection ended early
CloseChannel ==
    /\ StreamOpen
    /\ ch = <<>>
    /\ chClosed' = TRUE
    /\ UNCHANGED <<pc, ctxDone, callVars, rtErr, rtResp, acc, nPrelude, lastEvent,
                   ch, streamErr, streamClosed, sent, bodyVars>>

\* the event stream fails (a decoding or connection error): stream.Err()
\* reports it from now on and no further event is offered
StreamFail ==
    /\ StreamOpen
    /\ streamErr = ErrNil
    /\ streamErr' = ErrStream
    /\ UNCHANGED <<pc, ctxDone, callVars, rtErr, rtResp, acc, nPrelude, lastEvent,
                   ch, chClosed, streamClosed, sent, bodyVars>>

\* the caller cancels the request context (or its deadline passes)
Cancel ==
    /\ pc \in {"start", "prelude", "idle", "read"}
    /\ ~ctxDone
    /\ ctxDone' = TRUE
    /\ UNCHANGED <<pc, callVars, rtErr, rtResp, acc, nPrelude, lastEvent, streamVars, bodyVars>>

\* what <-stream.Events() yields when it is ready
EventReady == ch # <<>> \/ chClosed
Received == IF ch # <<>> THEN ch[1] ELSE NilEvent

\* ------------------------------------------------------------- the request
\* the requests: the URL's host names the function, its user-info (when
\* present) the qualifier
Requests == [Host : {"function-name"}, User : {<<>>, <<"alias">>, <<"">>}]

\* what the invocation client may do
Outcomes == {"ok", "encodeErr", "invokeErr"}

\* ------------------------------------------- ResponseStreamTransport.RoundTrip
\* the lambda.InvokeWithResponseStreamInput RoundTrip builds
StreamInput(req) == [FunctionName |-> req.Host, Qualifier |-> <<>>]

\* mutant: RoundTrip invokes again after the invocation client failed
StreamRoundTrip_Retries(req, outcome) ==
    /\ pc = "start"
    /\ \/ /\ outcome = "encodeErr"
          /\ pc' = "failed"
          /\ rtErr' = ErrEncode
          /\ UNCHANGED <<invokes, invIn>>
       \/ /\ outcome = "invokeErr"
          /\ pc' = "failed"
          /\ rtErr' = ErrInvoke
          /\ invokes' = invokes + 2
          /\ invIn' = StreamInput(req)
       \/ /\ outcome = "ok"
          /\ pc' = "prelude"
          /\ rtErr' = ErrPending
          /\ invokes' = invokes + 1
          /\ invIn' = StreamInput(req)
    /\ UNCHANGED <<ctxDone, invOut, unmarshalled, fnCall, script, bodies, rtResp, acc, nPrelude,
                   lastEvent, streamVars, bodyVars>>

\* RoundTrip up to the call of handleStreamingPrelude: buildRequest, then the
\* streaming invocation.  outcome: the request cannot be encoded, the
\* invocation client fails, or a stream is obtained.
StreamRoundTrip(req, outcome) ==
    /\ pc = "start"
    /\ \/ /\ outcome = "encodeErr"
          /\ pc' = "failed"
          /\ rtErr' = ErrEncode
          /\ UNCHANGED <<invokes, invIn>>
       \/ /\ outcome = "invokeErr"
          /\ pc' = "failed"
          /\ rtErr' = ErrInvoke
          /\ invokes' = invokes + 1
          /\ invIn' = StreamInput(req)
       \/ /\ outcome = "ok"
          /\ pc' = "prelude"
          /\ rtErr' = ErrPending
          /\ invokes' = invokes + 1
          /\ invIn' = StreamInput(req)
    /\ UNCHANGED <<ctxDone, invOut, unmarshalled, fnCall, script, bodies, rtResp, acc, nPrelude,
                   lastEvent, streamVars, bodyVars>>

\* mutant: a completion event before the separator reads as a clean end
PreludeOnEvent_CompleteIsEOF(b, event) ==
    IF event.kind = "complete"
    THEN [next |-> "return", err |-> ErrEOF, close |-> TRUE, buf |-> b, idx |-> -1]
    ELSE IF event.kind = "chunk"
    THEN LET nb == b \o event.payload
             idx == BytesIndex(nb, separate)
         IN  [next |-> IF idx >= 0 THEN "break" ELSE "loop",
              err |-> ErrNil, close |-> FALSE, buf |-> nb, idx |-> idx]
    ELSE [next |-> "return", err |-> ErrUnexpectedEventType, close |-> FALSE, buf |-> b, idx |-> -1]

\* mutant: an event of an unknown type is skipped and the loop goes on
PreludeOnEvent_SkipsUnknown(b, event) ==
    IF event.kind = "complete"
    THEN [next |-> "return", err |-> ErrUnexpectedEOF, close |-> TRUE, buf |-> b, idx |-> -1]
    ELSE IF event.kind = "chunk"
    THEN LET nb == b \o event.payload
             idx == BytesIndex(nb, separate)
         IN  [next |-> IF idx >= 0 THEN "break" ELSE "loop",
              err |-> ErrNil, close |-> FALSE, buf |-> nb, idx |-> idx]
    ELSE IF event.kind = "unknown"
    THEN [next |-> "loop", err |-> ErrNil, close |-> FALSE, buf |-> b, idx |-> -1]
    ELSE [next |-> "return", err |-> ErrUnexpectedEventType, close |-> FALSE, buf |-> b, idx |-> -1]

\* mutant: the loop ends one chunk after the chunk that completes the separator
PreludeOnEvent_ReadsAhead(b, event) ==
    IF event.kind = "complete"
    THEN [next |-> "return", err |-> ErrUnexpectedEOF, close |-> TRUE, buf |-> b, idx |-> -1]
    ELSE IF event.kind = "chunk"
    THEN LET nb == b \o event.payload
         IN  [next |-> IF BytesIndex(b, separate) >= 0 THEN "break" ELSE "loop",
              err |-> ErrNil, close |-> FALSE, buf |-> nb, idx |-> BytesIndex(nb, separate)]
    ELSE [next |-> "return", err |-> ErrUnexpectedEventType, close |-> FALSE, buf |-> b, idx |-> -1]

\* mutant: the separator is looked for in the chunk just received only
PreludeOnEvent_SearchesChunk(b, event) ==
    IF event.kind = "complete"
    THEN [next |-> "return", err |-> ErrUnexpectedEOF, close |-> TRUE, buf |-> b, idx |-> -1]
    ELSE IF event.kind = "chunk"
    THEN LET i == BytesIndex(event.payload, separate)
         IN  [next |-> IF i >= 0 THEN "break" ELSE "loop", err |-> ErrNil, close |-> FALSE,
              buf |-> b \o event.payload, idx |-> IF i >= 0 THEN Len(b) + i ELSE -1]
    ELSE [next |-> "return", err |-> ErrUnexpectedEventType, close |-> FALSE, buf |-> b, idx |-> -1]

\* the switch of handleStreamingPrelude on one received event
PreludeOnEvent(b, event) ==
    IF event.kind = "complete"
    THEN [next |-> "return", err |-> ErrUnexpectedEOF, close |-> TRUE, buf |-> b, idx |-> -1]
    ELSE IF event.kind = "chunk"
    THEN LET nb == b \o event.payload
             idx == BytesIndex(nb, separate)
         IN  [next |-> IF idx >= 0 THEN "break" ELSE "loop",
              err |-> ErrNil, close |-> FALSE, buf |-> nb, idx |-> idx]
    ELSE [next |-> "return", err |-> ErrUnexpectedEventType, close |-> FALSE, buf |-> b, idx |-> -1]

\* mutant: a prelude that does not decode gives the zero response
PreludeSplit_IgnoresJSONError(b, idx) ==
    [err |-> ErrNil, resp |-> Response(UnmarshalPrelude(SliceTo(b, idx)).resp),
     buf |-> SliceFrom(b, idx + Len(separate))]

\* handleStreamingPrelude after the loop: split at the separator, decode
PreludeSplit(b, idx) ==
    LET prelude == SliceTo(b, idx)
        rest == SliceFrom(b, idx + Len(separate))
        u == UnmarshalPrelude(prelude)
    IN  IF u.err # ErrNil
        THEN [err |-> u.err, resp |-> NoResponse, buf |-> <<>>]
        ELSE [err |-> ErrNil, resp |-> Response(u.resp), buf |-> rest]

\* mutant: the select has no case <-ctx.Done()
SelectCtxDone_Never(done) == FALSE

\* mutant: the stream is left open on cancellation
PreludeOnCancel_NoClose == [err |-> ErrCanceled, close |-> FALSE]

\* case <-ctx.Done() of a select is ready
SelectCtxDone(done) == done

\* case <-ctx.Done() of handleStreamingPrelude
PreludeOnCancel == [err |-> ErrCanceled, close |-> TRUE]

\* select chose case event = <-stream.Events(): one iteration of the loop,
\* and, when the separator is found, the rest of RoundTrip
PreludeRecv ==
    /\ pc = "prelude"
    /\ EventReady
    /\ LET r == PreludeOnEvent(acc, Received)
           s == PreludeSplit(r.buf, r.idx)
       IN  /\ ch' = <<>>
           /\ nPrelude' = nPrelude + Len(ch)
           /\ lastEvent' = Received
           /\ streamClosed' = (streamClosed \/ r.close)
           /\ IF r.next = "loop"
              THEN /\ acc' = r.buf
                   /\ UNCHANGED <<pc, rtErr, rtResp, buf>>
              ELSE IF r.next = "return"
              THEN /\ pc' = "failed"
                   /\ rtErr' = r.err
                   /\ UNCHANGED <<acc, rtResp, buf>>
              ELSE IF s.err # ErrNil
              THEN /\ pc' = "failed"
                   /\ rtErr' = s.err
                   /\ acc' = r.buf
                   /\ UNCHANGED <<rtResp, buf>>
              ELSE /\ pc' = "idle"
                   /\ rtErr' = ErrNil
                   /\ rtResp' = s.resp
                   /\ acc' = r.buf
                   /\ buf' = s.buf
    /\ UNCHANGED <<ctxDone, callVars, chClosed, streamErr, sent,
                   plen, readN, readErr, delivered, firstErr, reads>>

\* select chose case <-ctx.Done() in handleStreamingPrelude
PreludeCancel ==
    /\ pc = "prelude"
    /\ SelectCtxDone(ctxDone)
    /\ pc' = "failed"
    /\ rtErr' = PreludeOnCancel.err
    /\ streamClosed' = (streamClosed \/ PreludeOnCancel.close)
    /\ lastEvent' = NoEvent
    /\ UNCHANGED <<ctxDone, callVars, rtResp, acc, nPrelude,
                   ch, chClosed, streamErr, sent, bodyVars>>

\* mutant: the whole leftover is returned, whatever len(p)
ReadFromBuf_IgnoresLen(b, n) ==
    [n |-> Len(b), err |-> ErrNil, buf |-> <<>>, data |-> b]

\* ------------------------------------------------------------ streamingBody
\* mutant: the bytes that do not fit are dropped
ReadFromBuf_DropsRest(b, n) ==
    LET k == Min(n, Len(b))
    IN  [n |-> k, err |-> ErrNil, buf |-> <<>>, data |-> SliceTo(b, k)]

\* Read with leftover bytes: copy what fits, keep the rest
ReadFromBuf(b, n) ==
    LET k == Min(n, Len(b))
    IN  [n |-> k, err |-> ErrNil, buf |-> SliceFrom(b, k), data |-> SliceTo(b, k)]

\* mutant: a chunk is returned with a nil error, whatever stream.Err() reports
ReadOnEvent_ChunkNilError(b, event, n, serr) ==
    IF event.kind = "complete"
    THEN IF event.code # <<>> \/ event.details # <<>>
         THEN [n |-> 0, buf |-> b, data |-> <<>>,
               err |-> ResponseStreamError(AwsToString(event.code), AwsToString(event.details))]
         ELSE [n |-> 0, buf |-> b, data |-> <<>>, err |-> ErrEOF]
    ELSE IF event.kind = "chunk"
    THEN LET k == Min(n, Len(event.payload))
         IN  [n |-> k, buf |-> SliceFrom(event.payload, k),
              data |-> SliceTo(event.payload, k), err |-> ErrNil]
    ELSE IF event.kind = "nil"
    THEN [n |-> 0, buf |-> b, data |-> <<>>, err |-> ErrUnexpectedEOF]
    ELSE [n |-> 0, buf |-> b, data |-> <<>>, err |-> ErrUnexpectedEventType]

\* mutant: the closed channel reads as no data yet
ReadOnEvent_NilIsNoData(b, event, n, serr) ==
    IF event.kind = "complete"
    THEN IF event.code # <<>> \/ event.details # <<>>
         THEN [n |-> 0, buf |-> b, data |-> <<>>,
               err |-> ResponseStreamError(AwsToString(event.code), AwsToString(event.details))]
         ELSE [n |-> 0, buf |-> b, data |-> <<>>, err |-> ErrEOF]
    ELSE IF event.kind = "chunk"
    THEN LET k == Min(n, Len(event.payload))
         IN  [n |-> k, buf |-> SliceFrom(event.payload, k),
              data |-> SliceTo(event.payload, k), err |-> serr]
    ELSE IF event.kind = "nil"
    THEN [n |-> 0, buf |-> b, data |-> <<>>, err |-> ErrNil]
    ELSE [n |-> 0, buf |-> b, data |-> <<>>, err |-> ErrUnexpectedEventType]

\* mutant: the closed channel reads as a clean end
ReadOnEvent_NilIsEOF(b, event, n, serr) ==
    IF event.kind = "complete"
    THEN IF event.code # <<>> \/ event.details # <<>>
         THEN [n |-> 0, buf |-> b, data |-> <<>>,
               err |-> ResponseStreamError(AwsToString(event.code), AwsToString(event.details))]
         ELSE [n |-> 0, buf |-> b, data |-> <<>>, err |-> ErrEOF]
    ELSE IF event.kind = "chunk"
    THEN LET k == Min(n, Len(event.payload))
         IN  [n |-> k, buf |-> SliceFrom(event.payload, k),
              data |-> SliceTo(event.payload, k), err |-> serr]
    ELSE [n |-> 0, buf |-> b, data |-> <<>>, err |-> ErrEOF]

\* mutant: an unknown event ends the body like a clean completion
ReadOnEvent_UnknownIsEOF(b, event, n, serr) ==
    IF event.kind = "complete"
    THEN IF event.code # <<>> \/ event.details # <<>>
         THEN [n |-> 0, buf |-> b, data |-> <<>>,
               err |-> ResponseStreamError(AwsToString(event.code), AwsToString(event.details))]
         ELSE [n |-> 0, buf |-> b, data |-> <<>>, err |-> ErrEOF]
    ELSE IF event.kind = "chunk"
    THEN LET k == Min(n, Len(event.payload))
         IN  [n |-> k, buf |-> SliceFrom(event.payload, k),
              data |-> SliceTo(event.payload, k), err |-> serr]
    ELSE IF event.kind = "nil"
    THEN [n |-> 0, buf |-> b, data |-> <<>>, err |-> ErrUnexpectedEOF]
    ELSE [n |-> 0, buf |-> b, data |-> <<>>, err |-> ErrEOF]

\* mutant: the error fields of the completion event are ignored
ReadOnEvent_IgnoresError(b, event, n, serr) ==
    IF event.kind = "complete"
    THEN [n |-> 0, buf |-> b, data |-> <<>>, err |-> ErrEOF]
    ELSE IF event.kind = "chunk"
    THEN LET k == Min(n, Len(event.payload))
         IN  [n |-> k, buf |-> SliceFrom(event.payload, k),
              data |-> SliceTo(event.payload, k), err |-> serr]
    ELSE IF event.kind = "nil"
    THEN [n |-> 0, buf |-> b, data |-> <<>>, err |-> ErrUnexpectedEOF]
    ELSE [n |-> 0, buf |-> b, data |-> <<>>, err |-> ErrUnexpectedEventType]

\* the switch of Read on the received event; serr is what stream.Err() reports
ReadOnEvent(b, event, n, serr) ==
    IF event.kind = "complete"
    THEN IF event.code # <<>> \/ event.details # <<>>
         THEN [n |-> 0, buf |-> b, data |-> <<>>,
               err |-> ResponseStreamError(AwsToString(event.code), AwsToString(event.details))]
         ELSE [n |-> 0, buf |-> b, data |-> <<>>, err |-> ErrEOF]
    ELSE IF event.kind = "chunk"
    THEN LET k == Min(n, Len(event.payload))
         IN  [n |-> k, buf |-> SliceFrom(event.payload, k),
              data |-> SliceTo(event.payload, k), err |-> serr]
    ELSE IF event.kind = "nil"
    THEN [n |-> 0, buf |-> b, data |-> <<>>, err |-> ErrUnexpectedEOF]
    ELSE [n |-> 0, buf |-> b, data |-> <<>>, err |-> ErrUnexpectedEventType]

\* mutant: a cancelled Read reports a clean end
ReadOnCancel_ReturnsEOF(b) == [n |-> 0, err |-> ErrEOF, buf |-> b, data |-> <<>>]

\* case <-b.ctx.Done() of Read
ReadOnCancel(b) == [n |-> 0, err |-> ErrCanceled, buf |-> b, data |-> <<>>]

\* a Read returns r to its caller
ReadReturns(r) ==
    /\ pc' = "idle"
    /\ buf' = r.buf
    /\ readN' = r.n
    /\ readErr' = r.err
    /\ delivered' = delivered \o r.data
    /\ firstErr' = IF firstErr = ErrNil THEN r.err ELSE firstErr
    /\ reads' = IF firstErr = ErrNil THEN reads + 1 ELSE reads
    /\ plen' = 0

\* Read(p) with len(p) = n finds leftover bytes and returns at once
ReadBuffered(n) ==
    /\ pc = "idle"
    /\ Len(buf) > 0
    /\ ReadReturns(ReadFromBuf(buf, n))
    /\ lastEvent' = NoEvent
    /\ UNCHANGED <<ctxDone, callVars, rtErr, rtResp, acc, nPrelude, streamVars>>

\* Read(p) with len(p) = n finds no leftover and enters the select
ReadBlock(n) ==
    /\ pc = "idle"
    /\ Len(buf) = 0
    /\ pc' = "read"
    /\ plen' = n
    /\ UNCHANGED <<ctxDone, callVars, rtErr, rtResp, acc, nPrelude, lastEvent, streamVars,
                   buf, readN, readErr, delivered, firstErr, reads>>

\* select chose case event = <-b.stream.Events()
ReadRecv ==
    /\ pc = "read"
    /\ EventReady
    /\ ReadReturns(ReadOnEvent(buf, Received, plen, streamErr))
    /\ lastEvent' = Received
    /\ ch' = <<>>
    /\ UNCHANGED <<ctxDone, callVars, rtErr, rtResp, acc, nPrelude,
                   chClosed, streamErr, streamClosed, sent>>

\* select chose case <-b.ctx.Done()
ReadCancel ==
    /\ pc = "read"
    /\ SelectCtxDone(ctxDone)
    /\ ReadReturns(ReadOnCancel(buf))
    /\ lastEvent' = NoEvent
    /\ UNCHANGED <<ctxDone, callVars, rtErr, rtResp, acc, nPrelude, streamVars>>

\* mutant: Close returns without closing the stream
BodyClose_KeepsStream ==
    /\ pc = "idle"
    /\ pc' = "closed"
    /\ UNCHANGED <<ctxDone, callVars, rtErr, rtResp, acc, nPrelude, lastEvent,
                   ch, chClosed, streamErr, streamClosed, sent, bodyVars>>

\* streamingBody.Close
BodyClose ==
    /\ pc = "idle"
    /\ pc' = "closed"
    /\ streamClosed' = TRUE
    /\ UNCHANGED <<ctxDone, callVars, rtErr, rtResp, acc, nPrelude, lastEvent,
                   ch, chClosed, streamErr, sent, bodyVars>>

\* ------------------------------------------------ BufferedTransport.RoundTrip
\* the statuses the Invoke call itself may report
InvokeStatuses == {200, 202, 403, 500}

\* the payloads the Invoke call may return
InvokePayloads ==
    { "{}",
      "{\"statusCode\":403}",
      "{\"statusCode\":403,\"body\":\"SGk=\",\"isBase64Encoded\":true}",
      "{\"statusCode\":403,\"body\":\"%%%\",\"isBase64Encoded\":true}",
      "{\"statusCode\":404,\"body\":\"not found\"}",
      "{\"body\": \"\\\"Hello, world!\\\"\"}",
      "{\"body\": \"IkhlbGxvLCB3b3JsZCEi\", \"isBase64Encoded\": true}",
      "{\"statusCode\":999}",
      "{\"statusCode\":-1}",
      "{\"statusCode\":201,\"headers\":{\"content-type\":\"text/plain\",\"content-length\":\"999\"},\"cookies\":[\"a=1\",\"b=2\"],\"body\":\"Hi\"}",
      "{\"statusCode\":500,\"headers\":{\"x-powered-by\":\"lambda\",\"Content-Length\":\"7\"},\"body\":\"SGk=\",\"isBase64Encoded\":true}",
      "{\"headers\":{\"set-cookie\":\"z=0\",\"content-type\":\"\"},\"cookies\":[\"a=1\",\"b=2\"]}",
      "{\"statusCode\":\"403\"}",
      "[]",
      "Forbidden",
      "" }

WireResponse(st, body, b64) ==
    [StatusCode |-> st, Headers |-> << >>, Body |-> body, IsBase64Encoded |-> b64, Cookies |-> << >>]

\* a wire response with headers and cookies
WireResponseH(st, hdrs, cookies, body, b64) ==
    [StatusCode |-> st, Headers |-> hdrs, Body |-> body, IsBase64Encoded |-> b64, Cookies |-> cookies]

\* json.Unmarshal(out.Payload, &resp) on the payloads above; it fails on
\* text that is not JSON, on a JSON array, and on a statusCode that is a string.
\* A body is given by its bytes: 83 71 107 61 is SGk=, 37 is %
UnmarshalPayload(p) ==
    CASE p = "{}" -> [err |-> ErrNil, resp |-> ZeroResponse]
      [] p = "{\"statusCode\":403}" -> [err |-> ErrNil, resp |-> WireResponse(403, <<>>, FALSE)]
      [] p = "{\"statusCode\":403,\"body\":\"SGk=\",\"isBase64Encoded\":true}" ->
             [err |-> ErrNil, resp |-> WireResponse(403, <<83, 71, 107, 61>>, TRUE)]
      [] p = "{\"statusCode\":403,\"body\":\"%%%\",\"isBase64Encoded\":true}" ->
             [err |-> ErrNil, resp |-> WireResponse(403, <<37, 37, 37>>, TRUE)]
      [] p = "{\"statusCode\":404,\"body\":\"not found\"}" ->
             [err |-> ErrNil, resp |-> WireResponse(404,
                          <<110, 111, 116, 32, 102, 111, 117, 110, 100>>, FALSE)]
      [] p = "{\"body\": \"\\\"Hello, world!\\\"\"}" ->
             [err |-> ErrNil, resp |-> WireResponse(0,
                          <<34, 72, 101, 108, 108, 111, 44, 32, 119, 111, 114, 108, 100, 33, 34>>,
                          FALSE)]
      [] p = "{\"body\": \"IkhlbGxvLCB3b3JsZCEi\", \"isBase64Encoded\": true}" ->
             [err |-> ErrNil, resp |-> WireResponse(0,
                          <<73, 107, 104, 108, 98, 71, 120, 118, 76, 67, 66, 51, 98, 51, 74, 115, 90, 67, 69, 105>>,
                          TRUE)]
      [] p = "{\"statusCode\":999}" -> [err |-> ErrNil, resp |-> WireResponse(999, <<>>, FALSE)]
      [] p = "{\"statusCode\":-1}" -> [err |-> ErrNil, resp |-> WireResponse(-1, <<>>, FALSE)]
      [] p = "{\"statusCode\":201,\"headers\":{\"content-type\":\"text/plain\",\"content-length\":\"999\"},\"cookies\":[\"a=1\",\"b=2\"],\"body\":\"Hi\"}" ->
             [err |-> ErrNil,
              resp |-> WireResponseH(201,
                           [k \in {"content-type", "content-length"} |->
                               IF k = "content-type" THEN "text/plain" ELSE "999"],
                           <<"a=1", "b=2">>, <<72, 105>>, FALSE)]
      [] p = "{\"statusCode\":500,\"headers\":{\"x-powered-by\":\"lambda\",\"Content-Length\":\"7\"},\"body\":\"SGk=\",\"isBase64Encoded\":true}" ->
             [err |-> ErrNil,
              resp |-> WireResponseH(500,
                           [k \in {"x-powered-by", "Content-Length"} |->
                               IF k = "x-powered-by" THEN "lambda" ELSE "7"],
                           << >>, <<83, 71, 107, 61>>, TRUE)]
      [] p = "{\"headers\":{\"set-cookie\":\"z=0\",\"content-type\":\"\"},\"cookies\":[\"a=1\",\"b=2\"]}" ->
             [err |-> ErrNil,
              resp |-> WireResponseH(0,
                           [k \in {"set-cookie", "content-type"} |->
                               IF k = "set-cookie" THEN "z=0" ELSE ""],
                           <<"a=1", "b=2">>, <<>>, FALSE)]
      [] OTHER -> [err |-> ErrJSON, resp |-> ZeroResponse]

\* ------------------------------------------------------ base64.StdEncoding
\* the padding character '='
StdPadding == 61

\* the value of a character of the standard alphabet, -1 for any other byte
DecodeMap(c) ==
    CASE c \in 65 .. 90 -> c - 65
      [] c \in 97 .. 122 -> c - 71
      [] c \in 48 .. 57 -> c + 4
      [] c = 43 -> 62
      [] c = 47 -> 63
      [] OTHER -> -1

\* the character of a 6-bit value in the standard alphabet
EncodeStd(v) ==
    CASE v \in 0 .. 25 -> v + 65
      [] v \in 26 .. 51 -> v + 71
      [] v \in 52 .. 61 -> v - 4
      [] v = 62 -> 43
      [] v = 63 -> 47

\* base64.StdEncoding.EncodedLen
EncodedLen(n) == ((n + 2) \div 3) * 4

\* base64.StdEncoding.Encode: three bytes give four characters; a remainder
\* of one or two bytes gives two or three characters and padding
RECURSIVE Base64Encode(_)
Base64Encode(src) ==
    IF Len(src) = 0 THEN <<>>
    ELSE IF Len(src) = 1
    THEN << EncodeStd(src[1] \div 4), EncodeStd((src[1] % 4) * 16), StdPadding, StdPadding >>
    ELSE IF Len(src) = 2
    THEN << EncodeStd(src[1] \div 4),
            EncodeStd((src[1] % 4) * 16 + src[2] \div 16),
            EncodeStd((src[2] % 16) * 4),
            StdPadding >>
    ELSE << EncodeStd(src[1] \div 4),
            EncodeStd((src[1] % 4) * 16 + src[2] \div 16),
            EncodeStd((src[2] % 16) * 4 + src[3] \div 64),
            EncodeStd(src[3] % 64) >> \o Base64Encode(SubSeq(src, 4, Len(src)))

\* the decoder skips carriage returns and line feeds
IsNewline(c) == c \in {10, 13}

\* the quanta of a string without newlines: four characters give three
\* bytes; the last quantum may end in one or two padding characters; any
\* other byte, a short quantum, or padding elsewhere is a CorruptInputError
RECURSIVE DecodeQuanta(_)
DecodeQuanta(s) ==
    IF Len(s) = 0 THEN [ok |-> TRUE, decoded |-> <<>>]
    ELSE IF Len(s) < 4 THEN [ok |-> FALSE, decoded |-> <<>>]
    ELSE LET v1 == DecodeMap(s[1])
             v2 == DecodeMap(s[2])
             v3 == DecodeMap(s[3])
             v4 == DecodeMap(s[4])
             b1 == v1 * 4 + v2 \div 16
             b2 == (v2 % 16) * 16 + v3 \div 4
             b3 == (v3 % 4) * 64 + v4
         IN  IF v1 < 0 \/ v2 < 0 THEN [ok |-> FALSE, decoded |-> <<>>]
             ELSE IF v3 >= 0 /\ v4 >= 0
             THEN LET rest == DecodeQuanta(SubSeq(s, 5, Len(s)))
                  IN  [ok |-> rest.ok, decoded |-> <<b1, b2, b3>> \o rest.decoded]
             ELSE IF Len(s) = 4 /\ s[3] = StdPadding /\ s[4] = StdPadding
             THEN [ok |-> TRUE, decoded |-> <<b1>>]
             ELSE IF Len(s) = 4 /\ v3 >= 0 /\ s[4] = StdPadding
             THEN [ok |-> TRUE, decoded |-> <<b1, b2>>]
             ELSE [ok |-> FALSE, decoded |-> <<>>]

\* mutant: the decoder drops the last byte of a padded quantum
Base64DecodeString_DropsPadded(b) ==
    LET d == DecodeQuanta(SelectSeq(b, LAMBDA c : ~IsNewline(c)))
    IN  IF ~d.ok THEN [err |-> ErrBody, decoded |-> <<>>]
        ELSE IF Len(b) > 0 /\ b[Len(b)] = StdPadding
        THEN [err |-> ErrNil, decoded |-> SubSeq(d.decoded, 1, Len(d.decoded) - 1)]
        ELSE [err |-> ErrNil, decoded |-> d.decoded]

\* base64.StdEncoding.DecodeString
Base64DecodeString(b) ==
    LET d == DecodeQuanta(SelectSeq(b, LAMBDA c : ~IsNewline(c)))
    IN  IF d.ok THEN [err |-> ErrNil, decoded |-> d.decoded]
        ELSE [err |-> ErrBody, decoded |-> <<>>]

\* mutant: the length reported is that of the encoded body string
responseBody_EncodedLength(r) ==
    IF r.IsBase64Encoded
    THEN LET d == Base64DecodeString(r.Body)
         IN  IF d.err # ErrNil
             THEN [err |-> d.err, body |-> <<>>, contentLength |-> 0]
             ELSE [err |-> ErrNil, body |-> d.decoded, contentLength |-> Len(r.Body)]
    ELSE [err |-> ErrNil, body |-> r.Body, contentLength |-> Len(r.Body)]

\* response.body: the body's bytes and their count
responseBody(r) ==
    IF r.IsBase64Encoded
    THEN LET d == Base64DecodeString(r.Body)
         IN  IF d.err # ErrNil
             THEN [err |-> d.err, body |-> <<>>, contentLength |-> 0]
             ELSE [err |-> ErrNil, body |-> d.decoded, contentLength |-> Len(d.decoded)]
    ELSE [err |-> ErrNil, body |-> r.Body, contentLength |-> Len(r.Body)]

\* mutant: a body that fails to decode gives a response with an empty body
buildResponse_IgnoresBodyError(r) ==
    LET b == responseBody(r)
    IN  [err |-> ErrNil,
         resp |-> [present |-> TRUE, Status |-> status(r), StatusCode |-> statusCode(r),
                   Header |-> HeaderSet(header(r), "Content-Length", Itoa(b.contentLength)),
                   Body |-> b.body, ContentLength |-> b.contentLength]]

\* buildResponse
buildResponse(r) ==
    LET b == responseBody(r)
    IN  IF b.err # ErrNil
        THEN [err |-> ErrBody, resp |-> NoResponse]
        ELSE [err |-> ErrNil,
              resp |-> [present |-> TRUE, Status |-> status(r), StatusCode |-> statusCode(r),
                        Header |-> HeaderSet(header(r), "Content-Length", Itoa(b.contentLength)),
                        Body |-> b.body, ContentLength |-> b.contentLength]]

\* mutant: the invocation status is not checked
BufferedDecode_NoStatusCheck(out) ==
    LET u == UnmarshalPayload(out.Payload)
    IN  IF u.err # ErrNil
        THEN [err |-> u.err, resp |-> NoResponse, unmarshalled |-> TRUE]
        ELSE LET b == buildResponse(u.resp)
             IN  [err |-> b.err, resp |-> b.resp, unmarshalled |-> TRUE]

\* RoundTrip after a successful Invoke: the status test, then the decoding
BufferedDecode(out) ==
    IF out.StatusCode # StatusOK
    THEN [err |-> LambdaError(out.StatusCode, out.Payload), resp |-> NoResponse,
          unmarshalled |-> FALSE]
    ELSE LET u == UnmarshalPayload(out.Payload)
         IN  IF u.err # ErrNil
             THEN [err |-> u.err, resp |-> NoResponse, unmarshalled |-> TRUE]
             ELSE LET b == buildResponse(u.resp)
                  IN  [err |-> b.err, resp |-> b.resp, unmarshalled |-> TRUE]

\* mutant: the qualifier is never set
BufferedInput_NoQualifier(req) == [FunctionName |-> req.Host, Qualifier |-> <<>>]

\* the lambda.InvokeInput RoundTrip builds
BufferedInput(req) == [FunctionName |-> req.Host, Qualifier |-> req.User]

\* the whole of BufferedTransport.RoundTrip.  outcome: the request cannot be
\* encoded, the invocation client fails, or it returns out
BufferedRoundTrip(req, outcome, out) ==
    /\ pc = "start"
    /\ pc' = "bdone"
    /\ \/ /\ outcome = "encodeErr"
          /\ rtErr' = ErrEncode
          /\ UNCHANGED <<invokes, invIn, invOut, unmarshalled, rtResp>>
       \/ /\ outcome = "invokeErr"
          /\ rtErr' = ErrInvoke
          /\ invokes' = invokes + 1
          /\ invIn' = BufferedInput(req)
          /\ UNCHANGED <<invOut, unmarshalled, rtResp>>
       \/ /\ outcome = "ok"
          /\ invokes' = invokes + 1
          /\ invIn' = BufferedInput(req)
          /\ invOut' = out
          /\ LET d == BufferedDecode(out)
             IN  /\ rtErr' = d.err
                 /\ rtResp' = d.resp
                 /\ unmarshalled' = d.unmarshalled
    /\ UNCHANGED <<ctxDone, fnCall, script, bodies, acc, nPrelude, lastEvent, streamVars, bodyVars>>

\* ============================================== the request encoder
\* the names and literals the encoder compares with, as bytes
\* "Content-Encoding"
HdrContentEncoding == <<67, 111, 110, 116, 101, 110, 116, 45, 69, 110, 99, 111, 100, 105, 110, 103>>
\* "Content-Type"
HdrContentType == <<67, 111, 110, 116, 101, 110, 116, 45, 84, 121, 112, 101>>
\* "Cookie"
HdrCookie == <<67, 111, 111, 107, 105, 101>>
\* "Accept"
HdrAccept == <<65, 99, 99, 101, 112, 116>>
\* "cookie"
HdrCookieLower == <<99, 111, 111, 107, 105, 101>>
\* "COOKIE"
HdrCookieUpper == <<67, 79, 79, 75, 73, 69>>
\* "text"
StrText == <<116, 101, 120, 116>>
\* "application/json"
StrApplicationJSON == <<97, 112, 112, 108, 105, 99, 97, 116, 105, 111, 110, 47, 106, 115, 111, 110>>
\* "application/yaml"
StrApplicationYAML == <<97, 112, 112, 108, 105, 99, 97, 116, 105, 111, 110, 47, 121, 97, 109, 108>>
\* "application/javascript"
StrApplicationJavaScript == <<97, 112, 112, 108, 105, 99, 97, 116, 105, 111, 110, 47, 106, 97, 118, 97, 115, 99, 114, 105, 112, 116>>
\* "application/xml"
StrApplicationXML == <<97, 112, 112, 108, 105, 99, 97, 116, 105, 111, 110, 47, 120, 109, 108>>
\* "+json"
StrPlusJSON == <<43, 106, 115, 111, 110>>
\* "+yaml"
StrPlusYAML == <<43, 121, 97, 109, 108>>
\* "+xml"
StrPlusXML == <<43, 120, 109, 108>>

\* strings.ToLower on ASCII and strings.EqualFold
ToLower(s) == [i \in 1 .. Len(s) |-> IF s[i] \in 65 .. 90 THEN s[i] + 32 ELSE s[i]]
EqualFold(s, t) == ToLower(s) = ToLower(t)

\* strings.Index and strings.LastIndex of a one-byte separator, 0-based, -1 if none
StringsIndex(s, sep) == BytesIndex(s, sep)
StringsLastIndex(s, sep) ==
    LET hits == { i \in 0 .. (Len(s) - Len(sep)) : SubSeq(s, i + 1, i + Len(sep)) = sep }
    IN  IF hits = {} THEN -1 ELSE CHOOSE i \in hits : \A j \in hits : j <= i

\* strings.TrimSpace / textproto.TrimString on ASCII
IsSpace(c) == c \in {9, 10, 11, 12, 13, 32}
RECURSIVE TrimLeft(_)
TrimLeft(s) == IF Len(s) > 0 /\ IsSpace(s[1]) THEN TrimLeft(Tail(s)) ELSE s
RECURSIVE TrimRight(_)
TrimRight(s) ==
    IF Len(s) > 0 /\ IsSpace(s[Len(s)]) THEN TrimRight(SubSeq(s, 1, Len(s) - 1)) ELSE s
TrimSpace(s) == TrimRight(TrimLeft(s))

\* strings.Join(v, sep)
RECURSIVE StringsJoin(_, _)
StringsJoin(v, sep) ==
    IF Len(v) = 0 THEN <<>>
    ELSE IF Len(v) = 1 THEN v[1]
    ELSE v[1] \o sep \o StringsJoin(Tail(v), sep)

\* http.Header.Values and http.Header.Get of a request header, called with
\* a canonical name: the values stored under exactly that name
Values(h, name) == IF name \in DOMAIN h THEN h[name] ELSE <<>>
Get(h, name) == IF Len(Values(h, name)) = 0 THEN <<>> ELSE Values(h, name)[1]

\* mutant: Content-Encoding is not looked at
isBinary_IgnoresEncoding(headers) ==
    LET contentType == Get(headers, HdrContentType)
        i0 == StringsIndex(contentType, <<59>>)
        i == IF i0 = -1 THEN Len(contentType) ELSE i0
        mediaType == TrimSpace(SliceTo(contentType, i))
        j0 == StringsIndex(mediaType, <<47>>)
        j == IF j0 = -1 THEN Len(mediaType) ELSE j0
        mainType == SliceTo(mediaType, j)
        k0 == StringsLastIndex(mediaType, <<43>>)
        k == IF k0 = -1 THEN 0 ELSE k0
        suffix == SliceFrom(mediaType, k)
    IN  IF EqualFold(mainType, StrText) THEN FALSE
        ELSE IF EqualFold(mediaType, StrApplicationJSON) THEN FALSE
        ELSE IF EqualFold(mediaType, StrApplicationYAML) THEN FALSE
        ELSE IF EqualFold(mediaType, StrApplicationJavaScript) THEN FALSE
        ELSE IF EqualFold(mediaType, StrApplicationXML) THEN FALSE
        ELSE IF EqualFold(suffix, StrPlusJSON) THEN FALSE
        ELSE IF EqualFold(suffix, StrPlusYAML) THEN FALSE
        ELSE IF EqualFold(suffix, StrPlusXML) THEN FALSE
        ELSE TRUE

\* isBinary.  59, 47 and 43 are ';', '/' and '+'
isBinary(headers) ==
    LET contentEncoding == Values(headers, HdrContentEncoding)
        contentType == Get(headers, HdrContentType)
        i0 == StringsIndex(contentType, <<59>>)
        i == IF i0 = -1 THEN Len(contentType) ELSE i0
        mediaType == TrimSpace(SliceTo(contentType, i))
        j0 == StringsIndex(mediaType, <<47>>)
        j == IF j0 = -1 THEN Len(mediaType) ELSE j0
        mainType == SliceTo(mediaType, j)
        k0 == StringsLastIndex(mediaType, <<43>>)
        k == IF k0 = -1 THEN 0 ELSE k0
        suffix == SliceFrom(mediaType, k)
    IN  IF Len(contentEncoding) > 0 THEN TRUE
        ELSE IF EqualFold(mainType, StrText) THEN FALSE
        ELSE IF EqualFold(mediaType, StrApplicationJSON) THEN FALSE
        ELSE IF EqualFold(mediaType, StrApplicationYAML) THEN FALSE
        ELSE IF EqualFold(mediaType, StrApplicationJavaScript) THEN FALSE
        ELSE IF EqualFold(mediaType, StrApplicationXML) THEN FALSE
        ELSE IF EqualFold(suffix, StrPlusJSON) THEN FALSE
        ELSE IF EqualFold(suffix, StrPlusYAML) THEN FALSE
        ELSE IF EqualFold(suffix, StrPlusXML) THEN FALSE
        ELSE TRUE

\* ------------------------------------------------------------ newRequestID
\* the bits of a and b combined bit by bit, over the width of a byte
RECURSIVE BitAnd(_, _)
BitAnd(a, b) ==
    IF a = 0 \/ b = 0 THEN 0
    ELSE (IF a % 2 = 1 /\ b % 2 = 1 THEN 1 ELSE 0) + 2 * BitAnd(a \div 2, b \div 2)
RECURSIVE BitOr(_, _)
BitOr(a, b) ==
    IF a = 0 THEN b
    ELSE IF b = 0 THEN a
    ELSE (IF a % 2 = 1 \/ b % 2 = 1 THEN 1 ELSE 0) + 2 * BitOr(a \div 2, b \div 2)

\* hex.Encode: two characters of "0123456789abcdef" for each byte
HexDigit(v) == IF v < 10 THEN 48 + v ELSE 87 + v
RECURSIVE HexEncode(_)
HexEncode(src) ==
    IF Len(src) = 0 THEN <<>>
    ELSE << HexDigit(src[1] \div 16), HexDigit(src[1] % 16) >> \o HexEncode(Tail(src))

\* mutant: the version is not set
newRequestID_NoVersion(rnd) ==
    LET uuid == [rnd EXCEPT ![9] = BitOr(BitAnd(rnd[9], 63), 128)]
    IN  HexEncode(SubSeq(uuid, 1, 4)) \o <<45>> \o HexEncode(SubSeq(uuid, 5, 6)) \o <<45>>
            \o HexEncode(SubSeq(uuid, 7, 8)) \o <<45>> \o HexEncode(SubSeq(uuid, 9, 10)) \o <<45>>
            \o HexEncode(SubSeq(uuid, 11, 16))

\* newRequestID on the sixteen bytes rand.Read has filled in: buf[6] and
\* buf[8] of the code are rnd[7] and rnd[9]; 15 is 0x0f, 64 is 0x40, 63 is
\* 0x3f, 128 is 0x80 and 45 is '-'
newRequestID(rnd) ==
    LET uuid == [rnd EXCEPT ![7] = BitOr(BitAnd(rnd[7], 15), 64),
                           ![9] = BitOr(BitAnd(rnd[9], 63), 128)]
    IN  HexEncode(SubSeq(uuid, 1, 4)) \o <<45>> \o HexEncode(SubSeq(uuid, 5, 6)) \o <<45>>
            \o HexEncode(SubSeq(uuid, 7, 8)) \o <<45>> \o HexEncode(SubSeq(uuid, 9, 10)) \o <<45>>
            \o HexEncode(SubSeq(uuid, 11, 16))

\* ------------------------------------------------------------ buildRequest
\* an http.Request as buildRequest reads it: Header maps each name to its
\* values; Body is <<>> for a nil body and <<b>> for a reader that yields the
\* bytes b; Fault names the call that fails, if one does (io.ReadAll of the
\* body, rand.Read); Rand is what rand.Read fills in

\* line 180
IsBase64Encoded(req) == req.Body # <<>> /\ isBinary(req.Header)

\* mutant: the body is never encoded
EncodeBody_Verbatim(req) == IF req.Body = <<>> THEN <<>> ELSE req.Body[1]

\* lines 181-193: the body string of the wire request
EncodeBody(req) ==
    IF req.Body = <<>> THEN <<>>
    ELSE IF IsBase64Encoded(req) THEN Base64Encode(req.Body[1])
    ELSE req.Body[1]

\* mutant: only the name Cookie, spelled so, is left out
CopyHeaders_CaseSensitive(h) ==
    [k \in { n \in DOMAIN h : n # HdrCookie } |-> StringsJoin(h[k], <<44>>)]

\* lines 196-203: the header mapping of the wire request; 44 is ','
CopyHeaders(h) ==
    [k \in { n \in DOMAIN h : ~EqualFold(n, HdrCookie) } |-> StringsJoin(h[k], <<44>>)]

\* strings.Cut(s, sep) for a one-byte sep
CutBefore(s, sep) ==
    IF StringsIndex(s, <<sep>>) = -1 THEN s ELSE SliceTo(s, StringsIndex(s, <<sep>>))
CutAfter(s, sep) ==
    IF StringsIndex(s, <<sep>>) = -1 THEN <<>> ELSE SliceFrom(s, StringsIndex(s, <<sep>>) + 1)

\* isCookieNameValid on the names below: not empty, letters and digits only
IsCookieNameValid(name) ==
    /\ Len(name) > 0
    /\ \A i \in 1 .. Len(name) : name[i] \in (48 .. 57) \cup (65 .. 90) \cup (97 .. 122)

\* validCookieValueByte: 34, 59 and 92 are '"', ';' and '\'
ValidCookieValueByte(b) == 32 <= b /\ b < 127 /\ b \notin {34, 59, 92}

\* readCookies on one line of the Cookie header: the parts between ';' (59),
\* each cut at '=' (61); empty parts and parts with an invalid name or value
\* are passed over
RECURSIVE ReadCookieLine(_)
ReadCookieLine(line) ==
    IF Len(line) = 0 THEN <<>>
    ELSE LET part == TrimSpace(CutBefore(line, 59))
             rest == CutAfter(line, 59)
             name == TrimSpace(CutBefore(part, 61))
             val == CutAfter(part, 61)
         IN  IF Len(part) = 0 \/ ~IsCookieNameValid(name)
                    \/ \E i \in 1 .. Len(val) : ~ValidCookieValueByte(val[i])
             THEN ReadCookieLine(rest)
             ELSE << [Name |-> name, Value |-> val] >> \o ReadCookieLine(rest)

\* req.Cookies(): the cookies of the lines stored under the name Cookie
RECURSIVE ReadCookies(_)
ReadCookies(lines) ==
    IF Len(lines) = 0 THEN <<>>
    ELSE ReadCookieLine(TrimSpace(lines[1])) \o ReadCookies(Tail(lines))

\* Cookie.String of a cookie that has a name and a value only: name=value,
\* the value in double quotes when it holds a space (32) or a comma (44)
CookieString(c) ==
    IF \E i \in 1 .. Len(c.Value) : c.Value[i] \in {32, 44}
    THEN c.Name \o <<61, 34>> \o c.Value \o <<34>>
    ELSE c.Name \o <<61>> \o c.Value

\* lines 205-208: the cookie sequence of the wire request
CookieStrings(h) ==
    LET cs == ReadCookies(Values(h, HdrCookie))
    IN  [i \in 1 .. Len(cs) |-> CookieString(cs[i])]

NoRequest ==
    [Version |-> "", RouteKey |-> "", Body |-> <<>>, IsBase64Encoded |-> FALSE,
     Headers |-> << >>, Cookies |-> <<>>, RequestID |-> <<>>]

\* buildRequest
buildRequest(req) ==
    IF req.Body # <<>> /\ req.Fault = "read" THEN [err |-> ErrEncode, req |-> NoRequest]
    ELSE IF req.Fault = "rand" THEN [err |-> ErrEncode, req |-> NoRequest]
    ELSE [err |-> ErrNil,
          req |-> [Version |-> "2.0", RouteKey |-> "$default",
                   Body |-> EncodeBody(req),
                   IsBase64Encoded |-> IsBase64Encoded(req),
                   Headers |-> CopyHeaders(req.Header),
                   Cookies |-> CookieStrings(req.Header),
                   RequestID |-> newRequestID(req.Rand)]]

\* ------------------------------------------------- the encoder's inputs
\* longest request body
MaxBody == 3

\* the media types of the Content-Type values: the registered text types in
\* several spellings, near misses of them, structured-syntax suffixes in the
\* last and in an earlier place, and binary types
MediaTypes ==
    \* "", "text", "text/plain", "TEXT/HTML"
    \* "Text/Css", "texts/plain", "xtext/plain", "application/json"
    \* "Application/JSON", "application/yaml", "application/javascript", "application/xml"
    \* "application/octet-stream", "application/jsonx", "application/x-json", "json"
    \* "application/ld+json", "application/vnd.api+JSON", "image/svg+xml", "application/x+yaml"
    \* "application/json+zip", "a+json+b", "a+b+xml", "+json"
    \* "image/png", "multipart/form-data", "text/html"
    {
      <<>>,
      <<116, 101, 120, 116>>,
      <<116, 101, 120, 116, 47, 112, 108, 97, 105, 110>>,
      <<84, 69, 88, 84, 47, 72, 84, 77, 76>>,
      <<84, 101, 120, 116, 47, 67, 115, 115>>,
      <<116, 101, 120, 116, 115, 47, 112, 108, 97, 105, 110>>,
      <<120, 116, 101, 120, 116, 47, 112, 108, 97, 105, 110>>,
      <<97, 112, 112, 108, 105, 99, 97, 116, 105, 111, 110, 47, 106, 115, 111, 110>>,
      <<65, 112, 112, 108, 105, 99, 97, 116, 105, 111, 110, 47, 74, 83, 79, 78>>,
      <<97, 112, 112, 108, 105, 99, 97, 116, 105, 111, 110, 47, 121, 97, 109, 108>>,
      <<97, 112, 112, 108, 105, 99, 97, 116, 105, 111, 110, 47, 106, 97, 118, 97, 115, 99, 114, 105, 112, 116>>,
      <<97, 112, 112, 108, 105, 99, 97, 116, 105, 111, 110, 47, 120, 109, 108>>,
      <<97, 112, 112, 108, 105, 99, 97, 116, 105, 111, 110, 47, 111, 99, 116, 101, 116, 45, 115, 116, 114, 101, 97, 109>>,
      <<97, 112, 112, 108, 105, 99, 97, 116, 105, 111, 110, 47, 106, 115, 111, 110, 120>>,
      <<97, 112, 112, 108, 105, 99, 97, 116, 105, 111, 110, 47, 120, 45, 106, 115, 111, 110>>,
      <<106, 115, 111, 110>>,
      <<97, 112, 112, 108, 105, 99, 97, 116, 105, 111, 110, 47, 108, 100, 43, 106, 115, 111, 110>>,
      <<97, 112, 112, 108, 105, 99, 97, 116, 105, 111, 110, 47, 118, 110, 100, 46, 97, 112, 105, 43, 74, 83, 79, 78>>,
      <<105, 109, 97, 103, 101, 47, 115, 118, 103, 43, 120, 109, 108>>,
      <<97, 112, 112, 108, 105, 99, 97, 116, 105, 111, 110, 47, 120, 43, 121, 97, 109, 108>>,
      <<97, 112, 112, 108, 105, 99, 97, 116, 105, 111, 110, 47, 106, 115, 111, 110, 43, 122, 105, 112>>,
      <<97, 43, 106, 115, 111, 110, 43, 98>>,
      <<97, 43, 98, 43, 120, 109, 108>>,
      <<43, 106, 115, 111, 110>>,
      <<105, 109, 97, 103, 101, 47, 112, 110, 103>>,
      <<109, 117, 108, 116, 105, 112, 97, 114, 116, 47, 102, 111, 114, 109, 45, 100, 97, 116, 97>>,
      <<116, 101, 120, 116, 47, 104, 116, 109, 108>> }

\* what may stand before the media type (nothing, a space) and after it
\* (nothing, a parameter, a space and parameters that hold "+json")
MediaPrefixes == { <<>>, <<32>> }
\* "", "; charset=utf-8", " ;q=1;x=+json"
MediaParams ==
    {
      <<>>,
      <<59, 32, 99, 104, 97, 114, 115, 101, 116, 61, 117, 116, 102, 45, 56>>,
      <<32, 59, 113, 61, 49, 59, 120, 61, 43, 106, 115, 111, 110>> }

\* the values stored under Content-Type: none, one, or two of which Get
\* sees the first
ContentTypeValues ==
    { <<>> }
        \cup { << pre \o m \o post >> : pre \in MediaPrefixes, m \in MediaTypes, post \in MediaParams }
        \* "application/octet-stream" then "text/plain", and "text/plain" then "image/png"
        \cup { << <<97, 112, 112, 108, 105, 99, 97, 116, 105, 111, 110, 47, 111, 99, 116, 101, 116, 45, 115, 116, 114, 101, 97, 109>>,
                  <<116, 101, 120, 116, 47, 112, 108, 97, 105, 110>> >>,
               << <<116, 101, 120, 116, 47, 112, 108, 97, 105, 110>>,
                  <<105, 109, 97, 103, 101, 47, 112, 110, 103>> >> }

\* the values stored under Content-Encoding: none, "gzip", "identity", or an
\* empty value
ContentEncodingValues ==
    { <<>>,
      << <<103, 122, 105, 112>> >>,
      << <<105, 100, 101, 110, 116, 105, 116, 121>> >>,
      << <<>> >> }

\* a header with the values vs under name, and the union of two headers
Header1(name, vs) == IF vs = <<>> THEN << >> ELSE [n \in {name} |-> vs]
HeaderMerge(g, h) ==
    [n \in (DOMAIN g) \cup (DOMAIN h) |-> IF n \in DOMAIN g THEN g[n] ELSE h[n]]

\* the headers the classifier is applied to
ClassifierHeaders ==
    { HeaderMerge(Header1(HdrContentType, ct), Header1(HdrContentEncoding, ce)) :
          ct \in ContentTypeValues, ce \in ContentEncodingValues }

\* the headers of the requests that carry a body: text and binary content
\* types, a content encoding, a header with two values, and cookies stored
\* under Cookie, cookie and COOKIE, in one line and in several
RequestHeaders ==
    { << >>,
      \* Content-Type: text/plain
      Header1(HdrContentType, << <<116, 101, 120, 116, 47, 112, 108, 97, 105, 110>> >>),
      \* Content-Type: application/octet-stream
      Header1(HdrContentType, << <<97, 112, 112, 108, 105, 99, 97, 116, 105, 111, 110, 47, 111, 99, 116, 101, 116, 45, 115, 116, 114, 101, 97, 109>> >>),
      \* Content-Type: application/json, Content-Encoding: gzip
      HeaderMerge(Header1(HdrContentType, << <<97, 112, 112, 108, 105, 99, 97, 116, 105, 111, 110, 47, 106, 115, 111, 110>> >>),
                  Header1(HdrContentEncoding, << <<103, 122, 105, 112>> >>)),
      \* Accept: text/html and application/json; Cookie: "a=1; b=2" and "c=3"
      HeaderMerge(Header1(HdrAccept, << <<116, 101, 120, 116, 47, 104, 116, 109, 108>>, <<97, 112, 112, 108, 105, 99, 97, 116, 105, 111, 110, 47, 106, 115, 111, 110>> >>),
                  Header1(HdrCookie, << <<97, 61, 49, 59, 32, 98, 61, 50>>, <<99, 61, 51>> >>)),
      \* cookie: x=1 (the name in lower case), Content-Type: image/png
      HeaderMerge(Header1(HdrCookieLower, << <<120, 61, 49>> >>),
                  Header1(HdrContentType, << <<105, 109, 97, 103, 101, 47, 112, 110, 103>> >>)),
      \* COOKIE: y=2, Cookie: "flag", "a=1;;b=2", "=x" and "s=1 2", Accept: text/html
      HeaderMerge(Header1(HdrCookieUpper, << <<121, 61, 50>> >>),
                  HeaderMerge(Header1(HdrCookie, << <<102, 108, 97, 103>>, <<97, 61, 49, 59, 59, 98, 61, 50>>, <<61, 120>>, <<115, 61, 49, 32, 50>> >>),
                              Header1(HdrAccept, << <<116, 101, 120, 116, 47, 104, 116, 109, 108>> >>))) }

\* the bytes of a body: NUL, 'H', and 0xff, which is no character of UTF-8
BodyBytes == {0, 72, 255}
Bodies == UNION { [1 .. n -> BodyBytes] : n \in 0 .. MaxBody }
\* a nil body, or a reader of some bytes
BodyInputs == { <<>> } \cup { <<b>> : b \in Bodies }

Faults == {"none", "read", "rand"}

\* what rand.Read fills in: sixteen bytes, of which the first, the last and
\* the two that newRequestID changes vary
RandBase == <<1, 35, 69, 103, 137, 171, 205, 239, 254, 220, 186, 152, 118, 84, 50, 16>>
RandomBufs ==
    { [RandBase EXCEPT ![1] = a, ![7] = b, ![9] = c, ![16] = d] :
          a \in {0, 171}, b \in {0, 15, 16, 64, 79, 128, 171, 240, 255},
          c \in {0, 63, 64, 128, 171, 191, 192, 255}, d \in {0, 255} }

EncoderInputs ==
    { [Header |-> h, Body |-> <<>>, Fault |-> "none", Rand |-> RandBase] : h \in ClassifierHeaders }
        \cup { [Header |-> h, Body |-> b, Fault |-> f, Rand |-> RandBase] :
                   h \in RequestHeaders, b \in BodyInputs, f \in Faults }
        \cup { [Header |-> << >>, Body |-> <<>>, Fault |-> "none", Rand |-> r] : r \in RandomBufs }

\* ------------------------------------- the encoder's functions, applied
EncoderInit ==
    /\ InitTransport
    /\ fnCall \in { [fn |-> "input", arg |-> x, res |-> <<>>] : x \in EncoderInputs }
    /\ script = NoScript
    /\ bodies = NoBodies

\* isBinary(req.Header)
IsBinaryCall ==
    /\ fnCall.fn = "input"
    /\ fnCall' = [fn |-> "isBinary", arg |-> fnCall.arg, res |-> isBinary(fnCall.arg.Header)]
    /\ UNCHANGED transportVars

\* buildRequest(req)
BuildRequestCall ==
    /\ fnCall.fn = "input"
    /\ fnCall' = [fn |-> "buildRequest", arg |-> fnCall.arg, res |-> buildRequest(fnCall.arg)]
    /\ UNCHANGED transportVars

\* newRequestID(): rand.Read fails, or fills in Rand
NewRequestIDCall ==
    /\ fnCall.fn = "input"
    /\ fnCall' = [fn |-> "newRequestID", arg |-> fnCall.arg,
                  res |-> IF fnCall.arg.Fault = "rand"
                          THEN [err |-> ErrEncode, id |-> <<>>]
                          ELSE [err |-> ErrNil, id |-> newRequestID(fnCall.arg.Rand)]]
    /\ UNCHANGED transportVars

EncoderNext ==
    \/ IsBinaryCall
    \/ BuildRequestCall
    \/ NewRequestIDCall

EncoderSpec == EncoderInit /\ [][EncoderNext]_vars

\* ===================================================== the two transports
Next ==
    \/ \E req \in Requests, o \in Outcomes,
          out \in [StatusCode : InvokeStatuses, Payload : InvokePayloads] :
            BufferedRoundTrip(req, o, out)
    \/ \E req \in Requests, o \in Outcomes : StreamRoundTrip(req, o)
    \/ \E b \in Payloads : Produce(PayloadChunk(b))
    \/ \E c \in Completions : Produce(c)
    \/ Produce(UnknownEvent)
    \/ CloseChannel
    \/ StreamFail
    \/ Cancel
    \/ PreludeRecv
    \/ PreludeCancel
    \/ \E n \in 1 .. MaxRead : ReadBuffered(n)
    \/ \E n \in 1 .. MaxRead : ReadBlock(n)
    \/ ReadRecv
    \/ ReadCancel
    \/ BodyClose

Spec == Init /\ [][Next]_vars

\* a goroutine blocked in a select runs once one of its cases is ready, and
\* the select picks among the ready cases at random: no ready case is
\* passed over forever
LiveSpec ==
    /\ Spec
    /\ WF_vars(PreludeRecv)
    /\ WF_vars(PreludeCancel)
    /\ WF_vars(ReadRecv)
    /\ WF_vars(ReadCancel)

TypeOK ==
    /\ pc \in {"start", "prelude", "failed", "idle", "read", "closed", "bdone"}
    /\ Len(ch) <= 1
\* ================================================================= claims
\* the payload bytes of a sequence of events, concatenated in order
RECURSIVE Flatten(_)
Flatten(evs) ==
    IF evs = <<>> THEN <<>>
    ELSE IF Len(evs) = 1 THEN evs[1].payload
    ELSE LET m == Len(evs) \div 2
         IN  Flatten(SubSeq(evs, 1, m)) \o Flatten(SubSeq(evs, m + 1, Len(evs)))

\* the bytes that follow the first separator in the payload bytes of evs
BodyOf(evs) ==
    LET all == Flatten(evs)
        i == BytesIndex(all, separate)
    IN  IF i < 0 THEN <<>> ELSE SliceFrom(all, i + Len(separate))

HasBody == pc \in {"idle", "read", "closed"}
IsClean(ev) == ev.kind = "complete" /\ ev.code = <<>> /\ ev.details = <<>>
IsErrorComplete(ev) == ev.kind = "complete" /\ (ev.code # <<>> \/ ev.details # <<>>)
\* the stream has offered its clean completion event and a call has received it
CleanConsumed == sent # <<>> /\ IsClean(sent[Len(sent)]) /\ ch = <<>>
\* every event offered before the last one is a payload chunk
OnlyChunksBeforeEnd == \A i \in 1 .. (Len(sent) - 1) : sent[i].kind = "chunk"
\* a Read that waited in its select returns in this step
ReadReturned == pc = "read" /\ pc' = "idle"

C3_ErrorAfterBytes ==
    /\ readErr.kind = "ResponseStreamError" =>
           /\ IsErrorComplete(lastEvent)
           /\ readErr.code = AwsToString(lastEvent.code)
           /\ readErr.details = AwsToString(lastEvent.details)
           /\ readN = 0
           /\ delivered = BodyOf(sent)
           /\ buf = <<>>
           /\ rtErr = ErrNil
           /\ rtResp.present
    /\ (HasBody /\ IsErrorComplete(lastEvent)) =>
           readErr = ResponseStreamError(AwsToString(lastEvent.code),
                                         AwsToString(lastEvent.details))

\* C3 witness: body bytes were returned, then the error of the completion event
C3_Witness ==
    /\ readErr = ResponseStreamError("ERR", "msg")
    /\ delivered = <<72, 105>>
    /\ rtErr = ErrNil
\* C4: a call waiting in its select with the context cancelled does not wait
\* forever; as long as no event becomes available it returns the context's
\* cancellation error (with 0 bytes, for Read); and a select that returns
\* with no event available returns that error.
C4_CancelledWaitReturns ==
    /\ (pc \in {"prelude", "read"} /\ ctxDone) ~> (pc \notin {"prelude", "read"})
    /\ (pc = "read" /\ ctxDone /\ ~EventReady)
          ~> ((pc = "idle" /\ readErr = ErrCanceled /\ readN = 0) \/ EventReady)
    /\ (pc = "prelude" /\ ctxDone /\ ~EventReady)
          ~> ((pc = "failed" /\ rtErr = ErrCanceled) \/ EventReady)
    /\ [][(pc = "read" /\ ~EventReady /\ pc' = "idle")
            => (readErr' = ErrCanceled /\ readN' = 0 /\ delivered' = delivered)]_vars
    /\ [][(pc = "prelude" /\ ~EventReady /\ pc' # "prelude")
            => (rtErr' = ErrCanceled /\ ~rtResp'.present)]_vars

\* C4 witness: a Read that waited with no event available has returned the
\* cancellation error and 0 bytes
C4_Witness ==
    /\ pc = "idle"
    /\ readErr = ErrCanceled
    /\ readN = 0
    /\ ~EventReady
    /\ lastEvent = NoEvent

C6_ErrorInPrelude ==
    (pc = "failed" /\ lastEvent.kind = "complete"
        /\ lastEvent.code # <<>> /\ lastEvent.details # <<>>) =>
        rtErr = ResponseStreamError(AwsToString(lastEvent.code),
                                    AwsToString(lastEvent.details))

\* C7 as stated: when the events channel is closed with no completion event
\* before the separator was found, RoundTrip returns io.ErrUnexpectedEOF
C7_ClosedInPrelude ==
    (pc = "failed" /\ lastEvent = NilEvent) => rtErr = ErrUnexpectedEOF

\* C8: when the channel is closed with no completion event after the
\* prelude, the Read that finds it closed returns io.ErrUnexpectedEOF and 0
\* bytes, after all the bytes received were returned; without a completion
\* event no Read returns io.EOF.
C8_ClosedInBody ==
    /\ (HasBody /\ lastEvent = NilEvent) =>
           /\ readErr = ErrUnexpectedEOF
           /\ readN = 0
           /\ delivered = BodyOf(sent)
           /\ buf = <<>>
    /\ (HasBody /\ ~Completed) => (readErr # ErrEOF /\ firstErr # ErrEOF)

\* C8 witness: body bytes were returned, then the closed channel was found
C8_Witness ==
    /\ readErr = ErrUnexpectedEOF
    /\ ~Completed
    /\ delivered = <<72, 105>>
    /\ firstErr = ErrUnexpectedEOF

\* C9: a Read returns io.EOF only on receiving a completion event without
\* error code and details; if the first non-nil error of the Reads is io.EOF
\* then the stream ended with that event, every event before it was a
\* payload chunk and the whole body was returned; and a Read that receives a
\* completion event with an error, an unknown event or the closed channel,
\* or is abandoned because of cancellation, returns a non-nil error that is
\* not io.EOF.
C9_NoSilentTruncation ==
    /\ readErr = ErrEOF => IsClean(lastEvent)
    /\ firstErr = ErrEOF =>
           /\ CleanConsumed
           /\ OnlyChunksBeforeEnd
           /\ delivered = BodyOf(sent)
           /\ buf = <<>>
    /\ (HasBody /\ (IsErrorComplete(lastEvent) \/ lastEvent.kind \in {"nil", "unknown"})) =>
           (readErr \notin {ErrNil, ErrEOF, ErrPending} /\ firstErr # ErrNil)
    /\ (HasBody /\ lastEvent = NoEvent /\ readErr \notin {ErrNil, ErrPending}) =>
           (readErr = ErrCanceled /\ firstErr # ErrNil)

\* C9 witness: an unknown event ended the body after some bytes
C9_Witness ==
    /\ pc = "idle"
    /\ lastEvent.kind = "unknown"
    /\ firstErr = ErrUnexpectedEventType
    /\ delivered # <<>>

\* the invocation client returned an output to BufferedTransport.RoundTrip
BufferedInvoked == pc = "bdone" /\ invOut # NoOutput
\* the wire response in the payload of that output
WireOf(out) == UnmarshalPayload(out.Payload)

\* C10 as stated: an invocation status other than 200 gives a LambdaError
\* with that status and the raw payload, and the payload is not parsed; an
\* invocation status of 200 with a payload whose statusCode is 403 gives a
\* response with status code 403 and no error
C10_InvocationStatus ==
    BufferedInvoked =>
        /\ invOut.StatusCode # 200 =>
               /\ rtErr = LambdaError(invOut.StatusCode, invOut.Payload)
               /\ ~rtResp.present
               /\ ~unmarshalled
        /\ (invOut.StatusCode = 200 /\ WireOf(invOut).err = ErrNil
                /\ WireOf(invOut).resp.StatusCode = 403) =>
               /\ rtErr = ErrNil
               /\ rtResp.present
               /\ rtResp.StatusCode = 403

\* the body of a wire response can be decoded
BodyDecodes(r) == ~r.IsBase64Encoded \/ Base64DecodeString(r.Body).err = ErrNil

\* C10 (as amended): an invocation status other than 200 gives a LambdaError
\* with that status and the raw payload, and the payload is not parsed; an
\* invocation status of 200 with a payload whose statusCode is 403 never
\* gives a LambdaError: it gives a response with status code 403 when the
\* body decodes, and the body's decoding error and no response when the
\* body is flagged base64 and is not valid base64.
C10_InvocationStatusAmended ==
    BufferedInvoked =>
        /\ invOut.StatusCode # 200 =>
               /\ rtErr = LambdaError(invOut.StatusCode, invOut.Payload)
               /\ ~rtResp.present
               /\ ~unmarshalled
        /\ (invOut.StatusCode = 200 /\ WireOf(invOut).err = ErrNil
                /\ WireOf(invOut).resp.StatusCode = 403) =>
               /\ unmarshalled
               /\ rtErr.kind # "LambdaError"
               /\ BodyDecodes(WireOf(invOut).resp) =>
                      (rtErr = ErrNil /\ rtResp.present /\ rtResp.StatusCode = 403)
               /\ ~BodyDecodes(WireOf(invOut).resp) =>
                      (rtErr = ErrBody /\ ~rtResp.present)

\* C10 witness: a 200 invocation whose payload says 403 returned a 403 response
C10_Witness ==
    /\ BufferedInvoked
    /\ invOut.StatusCode = 200
    /\ rtErr = ErrNil
    /\ rtResp.present
    /\ rtResp.StatusCode = 403

\* ---------------------------------------------------- buffered decoding
\* the buffered call decoded the payload into a response
BufferedDecoded == BufferedInvoked /\ rtErr = ErrNil /\ rtResp.present

\* the wire header names whose canonical form is name
WireNames(r, name) == { k \in DOMAIN r.Headers : CanonicalMIMEHeaderKey(k) = name }

\* the payloads that carry no body member
BodyAbsent ==
    { "{}", "{\"statusCode\":403}", "{\"statusCode\":999}", "{\"statusCode\":-1}" }

\* C11: decoding a wire response whose statusCode is absent or zero gives
\* status code 200 and the status line "200 OK"; a non-zero status gives the
\* line "<code> <reason>" when the code has a standard reason phrase and the
\* bare decimal code otherwise; a response without a Content-Type header
\* gets Content-Type application/json; an absent body decodes to an empty body
C11_DecodedDefaults ==
    BufferedDecoded =>
        LET w == WireOf(invOut).resp
        IN  /\ w.StatusCode = 0 => (rtResp.StatusCode = 200 /\ rtResp.Status = "200 OK")
            /\ w.StatusCode # 0 => rtResp.StatusCode = w.StatusCode
            /\ w.StatusCode = 201 => rtResp.Status = "201 Created"
            /\ w.StatusCode = 403 => rtResp.Status = "403 Forbidden"
            /\ w.StatusCode = 404 => rtResp.Status = "404 Not Found"
            /\ w.StatusCode = 500 => rtResp.Status = "500 Internal Server Error"
            /\ w.StatusCode = 999 => rtResp.Status = "999"
            /\ w.StatusCode = -1 => rtResp.Status = "-1"
            /\ w.StatusCode \in {0, 201, 403, 404, 500, 999, -1}
            /\ WireNames(w, "Content-Type") = {} =>
                   HeaderGet(rtResp.Header, "Content-Type") = "application/json"
            /\ invOut.Payload \in BodyAbsent =>
                   (rtResp.Body = <<>> /\ rtResp.ContentLength = 0)

\* C11 witness: the payload "{}" was decoded to "200 OK" with the default
\* Content-Type
C11_Witness ==
    /\ BufferedDecoded
    /\ invOut.Payload = "{}"
    /\ rtResp.Status = "200 OK"
    /\ HeaderGet(rtResp.Header, "Content-Type") = "application/json"

\* C12: for every decoded buffered response the Content-Length header and
\* the ContentLength field both equal the number of bytes of the body: the
\* length of the base64-decoded bytes when isBase64Encoded is set, the
\* length of the body string otherwise, whatever Content-Length the wire
\* headers declare
C12_ContentLength ==
    BufferedDecoded =>
        LET w == WireOf(invOut).resp
        IN  /\ rtResp.ContentLength = Len(rtResp.Body)
            /\ rtResp.Header["Content-Length"] = << Itoa(Len(rtResp.Body)) >>
            /\ ~w.IsBase64Encoded => rtResp.ContentLength = Len(w.Body)
            /\ (w.IsBase64Encoded /\ w.Body = <<83, 71, 107, 61>>) =>
                   (rtResp.ContentLength = 2 /\ HeaderGet(rtResp.Header, "Content-Length") = "2")
            /\ (w.IsBase64Encoded
                    /\ w.Body = <<73, 107, 104, 108, 98, 71, 120, 118, 76, 67, 66, 51, 98, 51, 74, 115, 90, 67, 69, 105>>) =>
                   (rtResp.ContentLength = 15 /\ HeaderGet(rtResp.Header, "Content-Length") = "15")
            /\ w.IsBase64Encoded =>
                   w.Body \in { <<83, 71, 107, 61>>,
                               <<73, 107, 104, 108, 98, 71, 120, 118, 76, 67, 66, 51, 98, 51, 74, 115, 90, 67, 69, 105>> }

\* C12 witness: a base64 body of two bytes whose wire headers declare a
\* Content-Length of 7 was decoded with Content-Length 2
C12_Witness ==
    /\ BufferedDecoded
    /\ WireOf(invOut).resp.IsBase64Encoded
    /\ WireNames(WireOf(invOut).resp, "Content-Length") # {}
    /\ WireOf(invOut).resp.Headers["Content-Length"] = "7"
    /\ rtResp.Body = <<72, 105>>
    /\ rtResp.ContentLength = 2
    /\ rtResp.Header["Content-Length"] = <<"2">>

\* the payloads that are not the JSON text of a wire response
NotWireJSON == { "Forbidden", "", "[]", "{\"statusCode\":\"403\"}" }

\* C13: in BufferedTransport.RoundTrip a payload that is not valid JSON for
\* a wire response, or a wire response flagged isBase64Encoded whose body is
\* not valid base64, makes the call return an error and no response
C13_DecodeFailure ==
    (BufferedInvoked /\ invOut.StatusCode = 200) =>
        /\ invOut.Payload \in NotWireJSON =>
               (rtErr = ErrJSON /\ ~rtResp.present /\ rtResp = NoResponse)
        /\ (invOut.Payload \notin NotWireJSON
                /\ WireOf(invOut).resp.IsBase64Encoded
                /\ WireOf(invOut).resp.Body = <<37, 37, 37>>) =>
               (rtErr = ErrBody /\ ~rtResp.present /\ rtResp = NoResponse)

\* C13 witness: a 200 invocation whose payload is flagged base64 and has the
\* body "%%%" returned the body error and no response
C13_Witness ==
    /\ BufferedInvoked
    /\ invOut.StatusCode = 200
    /\ WireOf(invOut).err = ErrNil
    /\ WireOf(invOut).resp.IsBase64Encoded
    /\ WireOf(invOut).resp.Body = <<37, 37, 37>>
    /\ rtErr = ErrBody
    /\ ~rtResp.present

\* ------------------------------------------------- function and qualifier
\* what the Invoke call may return
InvokeOutputs == [StatusCode : InvokeStatuses, Payload : InvokePayloads]

\* C17: BufferedTransport.RoundTrip invokes the function named by the URL
\* host; the qualifier of the invocation is the user-info username when the
\* URL has a user-info component, and no qualifier is sent when it has none
C17_BufferedQualifier ==
    [][\A req \in Requests, o \in Outcomes, out \in InvokeOutputs :
          (pc = "start" /\ pc' = "bdone" /\ invokes' = invokes + 1
               /\ BufferedRoundTrip(req, o, out)) =>
              /\ invIn'.FunctionName = req.Host
              /\ req.User # <<>> => invIn'.Qualifier = << req.User[1] >>
              /\ req.User = <<>> => invIn'.Qualifier = <<>>]_vars

\* C17 witness: a buffered call for lambda://alias@function-name has invoked
\* function-name with the qualifier alias
C17_Witness ==
    /\ pc = "bdone"
    /\ invokes = 1
    /\ invIn.FunctionName = "function-name"
    /\ invIn.Qualifier = <<"alias">>

\* C18: ResponseStreamTransport.RoundTrip passes the function name and the
\* qualifier the buffered transport passes: the URL host, and the user-info
\* username when the URL has a user-info component
C18_StreamQualifier ==
    [][\A req \in Requests, o \in Outcomes :
          (pc = "start" /\ invokes' = invokes + 1 /\ StreamRoundTrip(req, o)) =>
              /\ invIn'.FunctionName = req.Host
              /\ invIn' = BufferedInput(req)
              /\ req.User # <<>> => invIn'.Qualifier = << req.User[1] >>]_vars


\* ------------------------------------------------------ the request encoder
\* the media type of a header: the first Content-Type value with what
\* follows ';' stripped, trimmed, in lower case
MediaTypeOf(h) == ToLower(TrimSpace(CutBefore(Get(h, HdrContentType), 59)))

\* mt has a '+' and reads suf from its last '+' on
HasSuffix(mt, suf) ==
    \E i \in 1 .. Len(mt) :
        /\ mt[i] = 43
        /\ \A j \in (i + 1) .. Len(mt) : mt[j] # 43
        /\ SubSeq(mt, i, Len(mt)) = suf

\* the main type of mt is text: mt is "text", or starts with "text/"
MainTypeText(mt) == mt = StrText \/ (Len(mt) > 4 /\ SubSeq(mt, 1, 5) = StrText \o <<47>>)

\* the rule of C14 for text
TextByRule(h) ==
    /\ Values(h, HdrContentEncoding) = <<>>
    /\ \/ MainTypeText(MediaTypeOf(h))
       \/ MediaTypeOf(h) \in {StrApplicationJSON, StrApplicationYAML,
                              StrApplicationJavaScript, StrApplicationXML}
       \/ \E suf \in {StrPlusJSON, StrPlusYAML, StrPlusXML} : HasSuffix(MediaTypeOf(h), suf)

Built == fnCall.fn = "buildRequest" /\ fnCall.res.err = ErrNil
\* the bytes of the request's body; a nil body has none
RawBody(req) == IF req.Body = <<>> THEN <<>> ELSE req.Body[1]

\* the body of the wire request is the base64 text of the raw bytes when the
\* flag is set and the raw bytes when it is not; SA== is the text of 'H',
\* SGk= of "Hi", AAAA of three NUL bytes, //8A of 0xff 0xff 0x00
BodyFollowsFlag ==
    LET raw == RawBody(fnCall.arg)
        wire == fnCall.res.req
    IN  /\ wire.IsBase64Encoded =>
               /\ wire.Body = Base64Encode(raw)
               /\ Len(wire.Body) = EncodedLen(Len(raw))
               /\ raw = <<72>> => wire.Body = <<83, 65, 61, 61>>
               /\ raw = <<0, 0, 0>> => wire.Body = <<65, 65, 65, 65>>
               /\ raw = <<255, 255, 0>> => wire.Body = <<47, 47, 56, 65>>
        /\ ~wire.IsBase64Encoded => wire.Body = raw

\* C15 as stated: for every request, a nil body and an empty body included,
\* isBase64Encoded of the wire request is true exactly when isBinary
\* classifies the request's headers as binary, and the wire body is the
\* base64 text of the raw bytes when the flag is true and the raw bytes when
\* it is false
C15_FlagIffBinary ==
    Built =>
        /\ fnCall.res.req.IsBase64Encoded <=> isBinary(fnCall.arg.Header)
        /\ BodyFollowsFlag

\* C15 (as amended): isBase64Encoded of the wire request is true exactly
\* when the request has a body (one of no bytes included) and isBinary
\* classifies the request's headers as binary; a request with a nil body has
\* the flag false and an empty wire body whatever its headers; the wire body
\* is the base64 text of the raw bytes when the flag is true and the raw
\* bytes when it is false
C15_FlagIffBinaryWithBody ==
    Built =>
        /\ fnCall.res.req.IsBase64Encoded <=>
               (fnCall.arg.Body # <<>> /\ isBinary(fnCall.arg.Header))
        /\ fnCall.arg.Body = <<>> =>
               (~fnCall.res.req.IsBase64Encoded /\ fnCall.res.req.Body = <<>>)
        /\ BodyFollowsFlag

\* C15 witness: a request with the body 0xff 0xff 0x00 and no Content-Type
\* was encoded with the flag set and the body //8A
C15_Witness ==
    /\ Built
    /\ fnCall.arg.Body = << <<255, 255, 0>> >>
    /\ fnCall.arg.Header = << >>
    /\ fnCall.res.req.IsBase64Encoded
    /\ fnCall.res.req.Body = <<47, 47, 56, 65>>


\* C16: for every body and every header, the body string the request
\* encoder produces (base64 text when the request is classified binary, the
\* bytes themselves otherwise), decoded by the response decoder's body rule
\* under the encoder's isBase64Encoded flag, is the original byte string
C16_RoundTrip ==
    Built =>
        LET wire == fnCall.res.req
            back == responseBody([ZeroResponse EXCEPT !.Body = wire.Body,
                                                      !.IsBase64Encoded = wire.IsBase64Encoded])
        IN  /\ back.err = ErrNil
            /\ back.body = RawBody(fnCall.arg)
            /\ back.contentLength = Len(RawBody(fnCall.arg))

\* C16 witness: the one-byte body 0xff, classified binary, was encoded to a
\* padded quantum that decodes to 0xff again
C16_Witness ==
    /\ Built
    /\ fnCall.arg.Body = << <<255>> >>
    /\ fnCall.res.req.IsBase64Encoded
    /\ fnCall.res.req.Body = <<47, 119, 61, 61>>
    /\ responseBody([ZeroResponse EXCEPT !.Body = fnCall.res.req.Body,
                                         !.IsBase64Encoded = TRUE]).body = <<255>>


\* ------------------------------------------------------------ request ids
\* newRequestID has returned an id
Generated == fnCall.fn = "newRequestID" /\ fnCall.res.err = ErrNil
\* the characters 0-9 and a-f, and the value of one
LowerHex == (48 .. 57) \cup (97 .. 102)
HexValue(c) == IF c <= 57 THEN c - 48 ELSE c - 87
\* the byte the id spells at place i of the sixteen, its hyphens left out
IdByte(id, i) ==
    LET digits == SelectSeq(id, LAMBDA c : c # 45)
    IN  16 * HexValue(digits[2 * i - 1]) + HexValue(digits[2 * i])

\* C19: for every sixteen random bytes newRequestID returns 36 characters,
\* lower-case hex digits with hyphens after the 8th, 12th, 16th and 20th
\* digit; the 15th character is '4' and the 20th is one of 8, 9, a, b; the
\* other 122 bits are those of the random bytes
C19_RequestID ==
    Generated =>
        LET id == fnCall.res.id
            rnd == fnCall.arg.Rand
        IN  /\ Len(id) = 36
            /\ \A i \in {9, 14, 19, 24} : id[i] = 45
            /\ \A i \in (1 .. 36) \ {9, 14, 19, 24} : id[i] \in LowerHex
            /\ id[15] = 52
            /\ id[20] \in {56, 57, 97, 98}
            /\ \A i \in (1 .. 16) \ {7, 9} : IdByte(id, i) = rnd[i]
            /\ IdByte(id, 7) % 16 = rnd[7] % 16
            /\ IdByte(id, 9) % 64 = rnd[9] % 64

\* C19 witness: random bytes whose seventh and ninth byte are 0xab gave an
\* id with the digits 4b at the version and ab at the variant
C19_Witness ==
    /\ Generated
    /\ fnCall.arg.Rand[7] = 171
    /\ fnCall.arg.Rand[9] = 171
    /\ SubSeq(fnCall.res.id, 15, 16) = <<52, 98>>
    /\ SubSeq(fnCall.res.id, 20, 21) = <<97, 98>>


\* ------------------------------------------------------ headers and cookies
\* a header name that is Cookie in some spelling
IsCookieName(n) == ToLower(n) = HdrCookieLower

\* C20: buildRequest copies every header of the request except Cookie, in
\* any spelling, to the header mapping of the wire request, its values
\* joined by commas in their order; the mapping never has a Cookie entry; the
\* cookie sequence of the wire request has one entry for each cookie parsed
\* from the request, in order
C20_HeadersAndCookies ==
    Built =>
        LET h == fnCall.arg.Header
            wire == fnCall.res.req
            parsed == ReadCookies(Values(h, HdrCookie))
        IN  /\ DOMAIN wire.Headers = { n \in DOMAIN h : ~IsCookieName(n) }
            /\ \A n \in DOMAIN wire.Headers :
                   /\ ~IsCookieName(n)
                   /\ wire.Headers[n] = StringsJoin(h[n], <<44>>)
                   /\ Len(h[n]) = 1 => wire.Headers[n] = h[n][1]
                   /\ Len(h[n]) = 2 => wire.Headers[n] = h[n][1] \o <<44>> \o h[n][2]
            /\ Len(wire.Cookies) = Len(parsed)
            /\ \A i \in 1 .. Len(parsed) : wire.Cookies[i] = CookieString(parsed[i])
            \* Cookie: "a=1; b=2" and "c=3" give a=1, b=2, c=3
            /\ Values(h, HdrCookie) = << <<97, 61, 49, 59, 32, 98, 61, 50>>, <<99, 61, 51>> >> =>
                   wire.Cookies = << <<97, 61, 49>>, <<98, 61, 50>>, <<99, 61, 51>> >>

\* C20 witness: a request with Accept: text/html and application/json and
\* Cookie: "a=1; b=2" and "c=3" was encoded with the one header
\* Accept: text/html,application/json and the cookies a=1, b=2, c=3
C20_Witness ==
    /\ Built
    /\ DOMAIN fnCall.arg.Header = {HdrAccept, HdrCookie}
    /\ DOMAIN fnCall.res.req.Headers = {HdrAccept}
    /\ fnCall.res.req.Headers[HdrAccept] =
           <<116, 101, 120, 116, 47, 104, 116, 109, 108, 44, 97, 112, 112, 108, 105, 99, 97, 116, 105, 111, 110, 47, 106, 115, 111, 110>>
    /\ fnCall.res.req.Cookies = << <<97, 61, 49>>, <<98, 61, 50>>, <<99, 61, 51>> >>


\* ---------------------------------------------------------------- C21
\* a RoundTrip call of either transport has returned
Returned == pc \in {"bdone", "failed", "idle", "read", "closed"}

\* C21: a RoundTrip call, buffered or streaming, calls the invocation client
\* at most once: not at all when the request cannot be encoded, exactly once
\* in every other call that has got past the encoding; when the invocation
\* client fails, RoundTrip returns that error with no response, after that
\* single invocation.
C21_InvokesOnce ==
    /\ invokes <= 1
    /\ (pc = "start" \/ rtErr = ErrEncode) => invokes = 0
    /\ (pc # "start" /\ rtErr # ErrEncode) => invokes = 1
    /\ rtErr = ErrEncode => Returned /\ ~rtResp.present
    /\ rtErr = ErrInvoke => Returned /\ ~rtResp.present /\ invokes = 1

\* the streaming invocation failed and RoundTrip returned its error
C21_Witness ==
    /\ pc = "failed"
    /\ rtErr = ErrInvoke
    /\ invokes = 1
    /\ ~rtResp.present
    /\ sent = <<>>


\* ============================ two responses of one transport, read together
\* RoundTrip gives every response its own streamingBody{ctx, buf, stream};
\* the transport holds only the invocation client.  Two calls have returned
\* their responses; the consumer's goroutines read, cancel and close them in
\* any order.

\* the body of response i: its leftover, and the events of its own stream
\* that have not been received (after the last one the channel is closed)
NewBody(leftover, evs) ==
    [buf |-> leftover, evs |-> evs, done |-> FALSE, closed |-> FALSE,
     n |-> 0, err |-> ErrPending, delivered |-> <<>>, firstErr |-> ErrNil,
     leftover0 |-> leftover, evs0 |-> evs]

\* what the function behind response i streams: the two streams share no byte
PairStreams(i) ==
    LET x == IF i = 1 THEN 72 ELSE 123
        y == IF i = 1 THEN 105 ELSE 125
    IN  { NewBody(<<x>>, <<PayloadChunk(<<x, y>>), InvokeComplete(<<>>, <<>>)>>),
          NewBody(<<>>, <<PayloadChunk(<<y, x>>), InvokeComplete(<<"ERR">>, <<"msg">>)>>),
          NewBody(<<x, y>>, <<PayloadChunk(<<y>>)>>) }

PairInit ==
    /\ InitTransport
    /\ fnCall = NoCall
    /\ script = NoScript
    /\ bodies \in { <<b1, b2>> : b1 \in PairStreams(1), b2 \in PairStreams(2) }

\* mutant: the leftover buffer is one buffer shared by the transport's responses
SetBody_SharedBuf(bs, i, nb) ==
    [j \in DOMAIN bs |-> IF j = i THEN nb ELSE [bs[j] EXCEPT !.buf = nb.buf]]

\* a method of body i assigns to the fields of its own receiver only
SetBody(bs, i, nb) == [bs EXCEPT ![i] = nb]

\* the ways Read(p), len(p) = n, of body b can return, and how many events
\* each of them takes from b's stream; the select receives the next event of
\* the stream, or nil from the closed channel
PairReadResults(b, n) ==
    IF Len(b.buf) > 0
    THEN { [res |-> ReadFromBuf(b.buf, n), recv |-> 0] }
    ELSE { [res |-> ReadOnEvent(b.buf, IF b.evs # <<>> THEN Head(b.evs) ELSE NilEvent,
                                n, ErrNil),
            recv |-> 1] }
         \cup (IF SelectCtxDone(b.done)
               THEN { [res |-> ReadOnCancel(b.buf), recv |-> 0] }
               ELSE {})

\* body b after its Read returned r
PairAfterRead(b, r) ==
    [b EXCEPT !.buf = r.res.buf,
              !.n = r.res.n,
              !.err = r.res.err,
              !.delivered = b.delivered \o r.res.data,
              !.firstErr = IF b.firstErr = ErrNil THEN r.res.err ELSE b.firstErr,
              !.evs = IF r.recv = 1 /\ b.evs # <<>> THEN Tail(b.evs) ELSE b.evs]

\* bodies[i].Read(p) with len(p) = n
PairRead(i, n) ==
    /\ bodies # NoBodies
    /\ ~bodies[i].closed
    /\ \E r \in PairReadResults(bodies[i], n) :
           bodies' = SetBody(bodies, i, PairAfterRead(bodies[i], r))
    /\ UNCHANGED <<callState, script, fnCall>>

\* the context of request i is cancelled
PairCancel(i) ==
    /\ bodies # NoBodies
    /\ ~bodies[i].done
    /\ bodies' = SetBody(bodies, i, [bodies[i] EXCEPT !.done = TRUE])
    /\ UNCHANGED <<callState, script, fnCall>>

\* bodies[i].Close()
PairClose(i) ==
    /\ bodies # NoBodies
    /\ ~bodies[i].closed
    /\ bodies' = SetBody(bodies, i, [bodies[i] EXCEPT !.closed = TRUE])
    /\ UNCHANGED <<callState, script, fnCall>>

PairNext ==
    \/ \E i \in 1 .. 2, n \in 1 .. MaxRead : PairRead(i, n)
    \/ \E i \in 1 .. 2 : PairCancel(i)
    \/ \E i \in 1 .. 2 : PairClose(i)

PairSpec == PairInit /\ [][PairNext]_vars

\* ---------------------------------------------------------------- C22
\* the outcome the events of one stream lead to
OutcomeOf(evs) ==
    LET last == evs[Len(evs)]
    IN  IF IsClean(last) THEN ErrEOF
        ELSE IF IsErrorComplete(last)
        THEN ResponseStreamError(AwsToString(last.code), AwsToString(last.details))
        ELSE ErrUnexpectedEOF

\* C22: two streaming responses of one transport, read, cancelled and closed
\* in any interleaving, each keep to their own stream: at every moment the
\* bytes a response has delivered, its leftover and the payload it has not
\* received are exactly the body bytes of its own stream, in order; the
\* first error its Reads return is its own stream's outcome, or the
\* cancellation of its own context; and a clean end is reported only after
\* all of its own bytes.
C22_Independent ==
    bodies # NoBodies =>
        \A i \in 1 .. 2 :
            LET b == bodies[i]
            IN  /\ b.delivered \o b.buf \o Flatten(b.evs) = b.leftover0 \o Flatten(b.evs0)
                /\ \E k \in 0 .. Len(b.evs0) : b.evs = SubSeq(b.evs0, k + 1, Len(b.evs0))
                /\ b.firstErr \in {ErrNil, ErrCanceled, OutcomeOf(b.evs0)}
                /\ b.firstErr = ErrCanceled => b.done
                /\ b.firstErr \notin {ErrNil, ErrCanceled} =>
                       b.delivered = b.leftover0 \o Flatten(b.evs0)

\* response 1 has been read to its clean end while response 2, cancelled
\* after its first bytes, still holds leftover and an unreceived event
C22_Witness ==
    /\ bodies # NoBodies
    /\ bodies[1].firstErr = ErrEOF
    /\ bodies[1].delivered = <<72, 72, 105>>
    /\ bodies[2].done
    /\ bodies[2].delivered = <<123>>
    /\ bodies[2].buf = <<125>>
    /\ bodies[2].evs # <<>>
    /\ ~bodies[2].closed


\* ================================= one byte stream, cut into chunks at will
\* The function writes a prelude, the separator and a body; the service cuts
\* the bytes into payload chunks wherever it likes and ends the stream with
\* a clean completion event.

\* every way to cut s into non-empty chunks
RECURSIVE Cuts(_)
Cuts(s) ==
    IF s = <<>> THEN { <<>> }
    ELSE UNION { { <<SliceTo(s, k)>> \o rest : rest \in Cuts(SliceFrom(s, k)) } :
                 k \in 1 .. Len(s) }

\* the streams cut in every way: "{}", the separator, "H"; the separator
\* alone (an empty prelude), and "{}H", which has no separator
ShortStreams ==
    { PreludeEmptyObject \o separate \o <<72>>,
      separate,
      PreludeEmptyObject \o <<72>> }

\* the streams cut in one or two chunks and byte by byte: a body that is
\* itself a run of 8 zero bytes, the other preludes, a prelude that is not JSON
LongStreams ==
    { PreludeEmptyObject \o separate \o separate,
      PreludeNotFound \o separate \o <<72, 105>>,
      PreludeCreated \o separate \o <<72, 105>>,
      <<72, 105>> \o separate \o <<72>> }

\* TwoCuts: s in two chunks, one of which may be empty; OneByOne: s one byte
\* per chunk
Chunkings ==
    LET TwoCuts(s) == { <<SliceTo(s, k), SliceFrom(s, k)>> : k \in 0 .. Len(s) }
        OneByOne(s) == [i \in 1 .. Len(s) |-> <<s[i]>>]
    IN  UNION { Cuts(s) : s \in ShortStreams }
        \cup UNION { TwoCuts(s) \cup {OneByOne(s), <<s>>} : s \in LongStreams }

\* the events of a chunking
ScriptOf(chunks) ==
    [i \in 1 .. Len(chunks) |-> PayloadChunk(chunks[i])] \o <<InvokeComplete(<<>>, <<>>)>>

ChunkInit ==
    /\ InitTransport
    /\ fnCall = NoCall
    /\ bodies = NoBodies
    /\ script \in { ScriptOf(c) : c \in Chunkings }

\* the stream offers the next event of the script
ProduceScripted ==
    /\ StreamOpen
    /\ ch = <<>>
    /\ script # <<>>
    /\ ch' = <<Head(script)>>
    /\ sent' = Append(sent, Head(script))
    /\ script' = Tail(script)
    /\ UNCHANGED <<pc, ctxDone, invokes, invIn, invOut, unmarshalled, fnCall, bodies, rtErr,
                   rtResp, acc, nPrelude, lastEvent, chClosed, streamErr, streamClosed,
                   bodyVars>>

ChunkNext ==
    \/ \E req \in Requests, o \in Outcomes : StreamRoundTrip(req, o)
    \/ ProduceScripted
    \/ PreludeRecv
    \/ \E n \in 1 .. MaxRead : ReadBuffered(n)
    \/ \E n \in 1 .. MaxRead : ReadBlock(n)
    \/ ReadRecv
    \/ BodyClose

ChunkSpec == ChunkInit /\ [][ChunkNext]_vars

\* ---------------------------------------------------------------- C23
\* the bytes of the whole stream, sent or still to send
StreamBytes == Flatten(sent) \o Flatten(script)
\* the leftmost position in s at which 8 zero bytes start, -1 if none
LeftmostZeros(s, from) ==
    LET runs == { i \in from .. (Len(s) - 8) : \A j \in 1 .. 8 : s[i + j] = 0 }
    IN  IF runs = {} THEN -1 ELSE CHOOSE i \in runs : \A k \in runs : i <= k
\* handleStreamingPrelude has returned an error of its own
PreludeFailed == pc = "failed" /\ rtErr \notin {ErrEncode, ErrInvoke}

\* C23: the outcome of a call is a function of the concatenated payload
\* bytes, whatever the cut into chunks: the prelude is the bytes before the
\* leftmost run of 8 zero bytes of the stream and the response is decoded
\* from exactly those; the body (delivered, leftover and not yet received) is
\* all the bytes after that run, a later run of 8 zero bytes included; the
\* call fails with a decode error exactly when those prelude bytes are not
\* JSON, and with io.ErrUnexpectedEOF exactly when the stream has no
\* separator.
C23_ChunkingIndependent ==
    LET all == StreamBytes
        idx == LeftmostZeros(all, 0)
        prelude == SubSeq(all, 1, idx)
        body == SubSeq(all, idx + 9, Len(all))
    IN  /\ HasBody =>
            /\ idx >= 0
            /\ rtResp.present
            /\ UnmarshalPrelude(prelude).err = ErrNil
            /\ rtResp = Response(UnmarshalPrelude(prelude).resp)
            /\ delivered \o buf \o Flatten(ch) \o Flatten(script) = body
            /\ readErr = ErrEOF => delivered = body
        /\ PreludeFailed =>
            /\ ~rtResp.present
            /\ idx < 0 => rtErr = ErrUnexpectedEOF
            /\ idx >= 0 => rtErr = ErrJSON /\ UnmarshalPrelude(prelude).err = ErrJSON

\* the stream "{}", separator, "H" arrived one byte per chunk and was read
\* to its clean end
C23_Witness ==
    /\ Len(sent) = 12
    /\ \A i \in 1 .. 11 : Len(sent[i].payload) = 1
    /\ rtResp.present
    /\ nPrelude = 10
    /\ delivered = <<72>>
    /\ readErr = ErrEOF


\* ---------------------------------------------------------------- C24
\* the number of events the calls have received from the stream
Consumed == Len(sent) - Len(ch)

\* C24: handleStreamingPrelude goes from awaiting the prelude to streaming
\* once per call, on receiving the payload chunk that completes the first
\* separator: the events it received are payload chunks, the separator is in
\* their bytes and not in the bytes of those before the last one, and no
\* later event has been received when RoundTrip returns; after that an event
\* is received only by a Read that found the leftover empty, one event per
\* Read.
C24_PreludeOnce ==
    [][ /\ (pc = "prelude" /\ pc' = "idle") =>
               /\ nPrelude' = nPrelude + 1
               /\ Consumed' = nPrelude'
               /\ \A i \in 1 .. nPrelude' : sent'[i].kind = "chunk"
               /\ LeftmostZeros(Flatten(SubSeq(sent', 1, nPrelude')), 0) >= 0
               /\ LeftmostZeros(Flatten(SubSeq(sent', 1, nPrelude' - 1)), 0) = -1
        /\ pc' = "prelude" => pc \in {"start", "prelude"}
        /\ nPrelude' # nPrelude => pc = "prelude"
        /\ (pc # "prelude" /\ Consumed' # Consumed) =>
               /\ pc = "read"
               /\ pc' = "idle"
               /\ buf = <<>>
               /\ Consumed' = Consumed + 1
      ]_vars

\* RoundTrip has returned on the second chunk; the third event is offered
\* and nothing has received it, no Read having been called
C24_Witness ==
    /\ pc = "idle"
    /\ rtResp.present
    /\ nPrelude = 2
    /\ Len(sent) = 3
    /\ ch = <<sent[3]>>
    /\ readErr = ErrPending
    /\ delivered = <<>>


\* ---------------------------------------------------------------- C25
\* C25: a Read that finds leftover bytes returns min(len(p), len(leftover))
\* of them, the first ones, with a nil error, keeps the rest as the leftover
\* and returns at once: it receives no event and leaves the stream as it is,
\* also when the context is cancelled or an event is waiting.
C25_LeftoverRead ==
    [][ \A n \in 1 .. MaxRead :
            (pc = "idle" /\ buf # <<>> /\ ReadBuffered(n)) =>
                /\ pc' = "idle"
                /\ readN' = Min(n, Len(buf))
                /\ readErr' = ErrNil
                /\ delivered' = delivered \o SubSeq(buf, 1, readN')
                /\ buf' = SubSeq(buf, readN' + 1, Len(buf))
                /\ lastEvent' = NoEvent
                /\ UNCHANGED <<ch, chClosed, sent, streamErr, streamClosed, ctxDone>>
      ]_vars

\* with the context cancelled and an event waiting, a Read has returned one
\* of the leftover bytes, with no error, and left the rest and the event
C25_Witness ==
    /\ pc = "idle"
    /\ ctxDone
    /\ ch # <<>>
    /\ lastEvent = NoEvent
    /\ readN = 1
    /\ readErr = ErrNil
    /\ delivered = <<0>>
    /\ buf = <<0, 0, 0>>
    /\ firstErr = ErrNil


\* ---------------------------------------------------------------- C26
\* a Read that waited receives the payload chunk offered on the channel
ChunkRead ==
    /\ pc = "read"
    /\ pc' = "idle"
    /\ ch # <<>>
    /\ ch[1].kind = "chunk"
    /\ ch' = <<>>
\* that Read returns the bytes that fit and keeps the rest as the leftover
ChunkCopied ==
    LET p == ch[1].payload
    IN  /\ readN' = Min(plen, Len(p))
        /\ delivered' = delivered \o SubSeq(p, 1, readN')
        /\ buf' = SubSeq(p, readN' + 1, Len(p))

\* C26 (as stated): every Read that receives a payload chunk returns the
\* copied count with a nil error and keeps the uncopied rest as the
\* leftover, whatever the stream's Err() reports.
C26_ChunkReadNilError == [][ChunkRead => (ChunkCopied /\ readErr' = ErrNil)]_vars

\* C26 (as amended): every Read that receives a payload chunk returns the
\* copied count and keeps the uncopied rest as the leftover; the error it
\* returns with them is what the stream's Err() reports at that moment, nil
\* when the stream reports none.
C26_ChunkReadStreamErr == [][ChunkRead => (ChunkCopied /\ readErr' = streamErr)]_vars

\* a Read has returned the first bytes of a chunk together with the error
\* the stream reported, and holds the rest of the chunk
C26_Witness ==
    /\ pc = "idle"
    /\ lastEvent.kind = "chunk"
    /\ readN > 0
    /\ buf # <<>>
    /\ readErr = ErrStream
    /\ streamErr = ErrStream


\* ---------------------------------------------------------------- C27
\* C27: whenever the streaming RoundTrip returns an error after it has
\* obtained the event stream (truncated prelude, cancellation, unexpected or
\* nil event, prelude that is not JSON), the stream has been closed.
C27_ClosedOnEveryError ==
    (pc = "failed" /\ invokes = 1 /\ rtErr \in {ErrUnexpectedEOF, ErrCanceled,
                                                ErrUnexpectedEventType, ErrJSON})
        => streamClosed


\* ---------------------------------------------------------------- C28
\* a Read has brought the body to its end: a clean end, the error of the
\* completion event, an unknown event or the closed channel
ReadTerminal ==
    /\ HasBody
    /\ \/ readErr \in {ErrEOF, ErrUnexpectedEOF, ErrUnexpectedEventType}
       \/ readErr.kind = "ResponseStreamError"

\* C28 (as stated): when a Read brings the body to its end, the event stream
\* is closed at that point, with no call of Close by the consumer.
C28_ClosedAtTerminal == ReadTerminal => streamClosed

\* C28 (as amended): a Read that brings the body to its end returns the
\* outcome and leaves the event stream open; the stream is closed when, and
\* only when, the consumer calls Close.
C28_ClosedByClose == ReadTerminal => (streamClosed <=> pc = "closed")

\* the body was read to its clean end and the stream is still open; the
\* consumer has not called Close
C28_Witness ==
    /\ pc = "idle"
    /\ readErr = ErrEOF
    /\ IsClean(lastEvent)
    /\ delivered # <<>>
    /\ ~streamClosed


\* ---------------------------------------------------------------- C29
\* the wire response decoded from the bytes before the first separator
PreludeObject ==
    LET all == StreamBytes
    IN  UnmarshalPrelude(SubSeq(all, 1, LeftmostZeros(all, 0))).resp
\* h without its Content-Length
WithoutContentLength(h) == [k \in (DOMAIN h) \ {"Content-Length"} |-> h[k]]
\* the wire response names a Content-Length header itself
DeclaresContentLength(r) ==
    \E k \in DOMAIN r.Headers : CanonicalMIMEHeaderKey(k) = "Content-Length"

\* C29: the streaming response takes its status code, status line and
\* headers from the prelude object as the buffered decoder does from the
\* same object (200 for a zero status, one Set-Cookie per cookie, the
\* default Content-Type), apart from Content-Length: the streaming response
\* has that header only if the prelude names it, and then with the value
\* named, and its ContentLength is -1; a body field of the prelude is not
\* part of the response body.
C29_SameMetadata ==
    (HasBody /\ rtResp.present) =>
        LET r == PreludeObject
            b == buildResponse(r)
        IN  /\ b.err = ErrNil
            /\ rtResp.StatusCode = b.resp.StatusCode
            /\ rtResp.Status = b.resp.Status
            /\ WithoutContentLength(rtResp.Header) = WithoutContentLength(b.resp.Header)
            /\ HeaderGet(b.resp.Header, "Content-Length") = Itoa(Len(b.resp.Body))
            /\ ("Content-Length" \in DOMAIN rtResp.Header) <=> DeclaresContentLength(r)
            /\ DeclaresContentLength(r) =>
                   \E k \in DOMAIN r.Headers :
                       HeaderGet(rtResp.Header, "Content-Length") = r.Headers[k]
            /\ rtResp.ContentLength = -1
            /\ rtResp.Body = <<>>
            /\ readErr = ErrEOF =>
                   delivered = SubSeq(StreamBytes, LeftmostZeros(StreamBytes, 0) + 9,
                                      Len(StreamBytes))

\* the prelude {"statusCode":404,"body":"x"} gave a 404 response with the
\* default Content-Type and no Content-Length, and the body read to its end
\* is the streamed "Hi", not the "x" of the prelude
C29_Witness ==
    /\ PreludeObject.StatusCode = 404
    /\ PreludeObject.Body = <<120>>
    /\ rtResp.StatusCode = 404
    /\ rtResp.Status = "404 Not Found"
    /\ DOMAIN rtResp.Header = {"Content-Type"}
    /\ HeaderGet(rtResp.Header, "Content-Type") = "application/json"
    /\ rtResp.ContentLength = -1
    /\ HeaderGet(buildResponse(PreludeObject).resp.Header, "Content-Length") = "1"
    /\ readErr = ErrEOF
    /\ delivered = <<72, 105>>

\* the prelude with headers and cookies: 201, the declared Content-Type and
\* Content-Length, one Set-Cookie per cookie
C29_WitnessHeaders ==
    /\ rtResp.StatusCode = 201
    /\ rtResp.Status = "201 Created"
    /\ rtResp.Header["Set-Cookie"] = <<"a=1", "b=2">>
    /\ HeaderGet(rtResp.Header, "Content-Type") = "text/plain"
    /\ HeaderGet(rtResp.Header, "Content-Length") = "999"
    /\ HeaderGet(buildResponse(PreludeObject).resp.Header, "Content-Length") = "0"


\* ---------------------------------------------------------------- C30
\* the bytes handleStreamingPrelude has received
PreludeReceived == Flatten(SubSeq(sent, 1, nPrelude))
\* handleStreamingPrelude has received the first separator, after payload
\* chunks only
SeparatorReceived ==
    /\ pc \notin {"start", "prelude", "bdone"}
    /\ \A i \in 1 .. nPrelude : sent[i].kind = "chunk"
    /\ LeftmostZeros(PreludeReceived, 0) >= 0

\* C30: when the bytes before the first separator are not the JSON text of a
\* wire response (no bytes at all included), RoundTrip returns the decode
\* error and no response, there is no leftover and no Read returns a byte;
\* and the streaming RoundTrip returns a decode error in no other case.
C30_BadPrelude ==
    LET prelude == SubSeq(PreludeReceived, 1, LeftmostZeros(PreludeReceived, 0))
    IN  /\ (SeparatorReceived /\ prelude \notin {PreludeEmptyObject, PreludeNotFound, PreludeCreated}) =>
               /\ pc = "failed"
               /\ rtErr = ErrJSON
               /\ ~rtResp.present
               /\ buf = <<>>
               /\ delivered = <<>>
               /\ readErr = ErrPending
        /\ (pc = "failed" /\ rtErr = ErrJSON) =>
               /\ SeparatorReceived
               /\ prelude \notin {PreludeEmptyObject, PreludeNotFound, PreludeCreated}

\* the stream started with the separator: the prelude is empty and
\* RoundTrip has returned the decode error
C30_Witness ==
    /\ pc = "failed"
    /\ rtErr = ErrJSON
    /\ nPrelude = 1
    /\ sent[1].payload = separate
    /\ ~rtResp.present
    /\ delivered = <<>>


\* ---------------------------------------------------------------- C31
\* a call receives an event that is neither a payload chunk nor a
\* completion event
UnknownReceived == ch # <<>> /\ ch[1].kind = "unknown" /\ ch' = <<>>

\* C31: the call that receives an event of another type than payload chunk
\* and completion fails in that very step: handleStreamingPrelude returns
\* the unexpected-event error and no response, having received nothing
\* after that event; a Read returns 0 bytes and that error, which is not
\* io.EOF, and delivers nothing.
C31_UnknownEventFails ==
    [][ UnknownReceived =>
            /\ pc \in {"prelude", "read"}
            /\ Consumed' = Consumed + 1
            /\ lastEvent' = UnknownEvent
            /\ pc = "prelude" =>
                   /\ pc' = "failed"
                   /\ rtErr' = ErrUnexpectedEventType
                   /\ ~rtResp'.present
                   /\ nPrelude' = Consumed'
            /\ pc = "read" =>
                   /\ pc' = "idle"
                   /\ readN' = 0
                   /\ readErr' = ErrUnexpectedEventType
                   /\ readErr' # ErrEOF
                   /\ delivered' = delivered
      ]_vars

\* handleStreamingPrelude received a chunk without separator, then an event
\* of unknown type, and RoundTrip has failed
C31_Witness ==
    /\ pc = "failed"
    /\ nPrelude = 2
    /\ sent[1] = PayloadChunk(<<123, 125>>)
    /\ sent[2] = UnknownEvent
    /\ lastEvent = UnknownEvent
    /\ rtErr = ErrUnexpectedEventType
    /\ ~rtResp.present


\* ---------------------------------------------------------------- C32
\* C32: a wire response whose statusCode is neither 0 nor a standard HTTP
\* response code (100..599), a negative one for instance, is rejected:
\* RoundTrip returns an error and no response carrying that status.
C32_StatusRejected ==
    (/\ pc = "bdone"
     /\ invOut.StatusCode = StatusOK
     /\ WireOf(invOut).err = ErrNil
     /\ WireOf(invOut).resp.StatusCode \notin ({0} \cup (100 .. 599)))
        => (rtErr # ErrNil /\ ~rtResp.present)


\* ---------------------------------------------------------------- C33
\* the value the wire response declares for the header of canonical name
\* name, as a list: empty when it declares none
Declared(r, name) ==
    IF WireNames(r, name) = {} THEN <<>>
    ELSE << r.Headers[CHOOSE k \in WireNames(r, name) : TRUE] >>
\* the values of header name in h
ValuesOf(h, name) == IF name \in DOMAIN h THEN h[name] ELSE <<>>

\* C33: every declared header is set with its value; the Set-Cookie values
\* are the declared one, if any, followed by the cookies in their order, one
\* value per cookie; Content-Type is the declared value when that is
\* non-empty and application/json otherwise; no other header is added
\* (Content-Length being buildResponse's).
C33_HeaderOrder ==
    BufferedDecoded =>
        LET w == WireOf(invOut).resp
            h == rtResp.Header
        IN  /\ \A k \in DOMAIN w.Headers :
                   CanonicalMIMEHeaderKey(k) \notin {"Set-Cookie", "Content-Type", "Content-Length"}
                       => ValuesOf(h, CanonicalMIMEHeaderKey(k)) = << w.Headers[k] >>
            /\ ValuesOf(h, "Set-Cookie") = Declared(w, "Set-Cookie") \o w.Cookies
            /\ Len(ValuesOf(h, "Set-Cookie")) =
                   Len(Declared(w, "Set-Cookie")) + Len(w.Cookies)
            /\ ValuesOf(h, "Content-Type") =
                   IF Declared(w, "Content-Type") \notin {<<>>, <<"">>}
                   THEN Declared(w, "Content-Type")
                   ELSE <<"application/json">>
            /\ DOMAIN h =
                   { CanonicalMIMEHeaderKey(k) : k \in DOMAIN w.Headers }
                   \cup (IF w.Cookies # <<>> THEN {"Set-Cookie"} ELSE {})
                   \cup {"Content-Type", "Content-Length"}

\* a response that declares a Set-Cookie header and an empty Content-Type and
\* has two cookies: three Set-Cookie values in order, the default Content-Type
C33_Witness ==
    /\ BufferedDecoded
    /\ Declared(WireOf(invOut).resp, "Set-Cookie") = <<"z=0">>
    /\ Declared(WireOf(invOut).resp, "Content-Type") = <<"">>
    /\ rtResp.Header["Set-Cookie"] = <<"z=0", "a=1", "b=2">>
    /\ rtResp.Header["Content-Type"] = <<"application/json">>


\* ---------------------------------------------------------------- C34
\* "text/html; charset=utf-8"
TextHTMLUTF8 ==
    <<116, 101, 120, 116, 47, 104, 116, 109, 108, 59, 32, 99, 104, 97, 114, 115, 101, 116,
      61, 117, 116, 102, 45, 56>>

\* C34: isBinary answers text for Content-Type "text/html; charset=utf-8"
\* with Content-Encoding "identity", and binary for the same Content-Type
\* with Content-Encoding "gzip".
C34_IdentityIsText ==
    (/\ fnCall.fn = "isBinary"
     /\ Get(fnCall.arg.Header, HdrContentType) = TextHTMLUTF8)
        => /\ Values(fnCall.arg.Header, HdrContentEncoding)
                  = << <<105, 100, 101, 110, 116, 105, 116, 121>> >> => fnCall.res = FALSE
           /\ Values(fnCall.arg.Header, HdrContentEncoding)
                  = << <<103, 122, 105, 112>> >> => fnCall.res = TRUE


\* ---------------------------------------------------------------- C35
\* C35: once a Read has returned io.EOF, every later Read on the body
\* returns 0 bytes and io.EOF again: with the context not cancelled, the
\* first error having been io.EOF, the last Read to return has returned
\* io.EOF and no byte.
C35_StickyEOF ==
    (HasBody /\ firstErr = ErrEOF /\ ~ctxDone) => (readErr = ErrEOF /\ readN = 0)


\* ---------------------------------------------------------------- C36
\* a Read called after an earlier Read had returned the cancellation error,
\* so with the context cancelled and the leftover empty at the call, returns
CancelledReadReturns == pc = "read" /\ readErr = ErrCanceled /\ pc' = "idle"
\* handleStreamingPrelude, the context being cancelled, receives an event or
\* returns
CancelledPreludeStep ==
    pc = "prelude" /\ ctxDone /\ (pc' # "prelude" \/ Consumed' # Consumed)

\* C36 (as stated): once the context is cancelled and the leftover is empty,
\* every Read returns the cancellation error and receives no event, also
\* when an event is available; and handleStreamingPrelude, the context being
\* cancelled, returns the cancellation error and never a response.
C36_CancelWins ==
    [][ /\ CancelledReadReturns =>
               (readErr' = ErrCanceled /\ readN' = 0 /\ ch' = ch)
        /\ CancelledPreludeStep =>
               (pc' = "failed" /\ rtErr' = ErrCanceled /\ ~rtResp'.present /\ ch' = ch)
      ]_vars

\* C36 (as amended): with the context cancelled and the leftover empty, a
\* Read returns the cancellation error, 0 bytes and receives no event
\* whenever no event is available; when an event is available, or the
\* channel is closed, the select takes either case, and the Read returns the
\* cancellation error or receives that event.  handleStreamingPrelude
\* likewise returns the cancellation error, the stream closed, or receives
\* the event available.
C36_CancelOrEvent ==
    [][ /\ (pc = "read" /\ ctxDone /\ pc' = "idle") =>
               \/ /\ readErr' = ErrCanceled
                  /\ readN' = 0
                  /\ lastEvent' = NoEvent
                  /\ UNCHANGED <<ch, sent, buf, delivered>>
               \/ /\ EventReady
                  /\ lastEvent' = Received
                  /\ ch' = <<>>
                  /\ readErr' # ErrCanceled
        /\ CancelledPreludeStep =>
               \/ /\ pc' = "failed"
                  /\ rtErr' = ErrCanceled
                  /\ streamClosed'
                  /\ ~rtResp'.present
                  /\ ch' = ch
               \/ /\ EventReady
                  /\ lastEvent' = Received
                  /\ ch' = <<>>
                  /\ rtErr' # ErrCanceled
      ]_vars

\* a Read returned the cancellation error, and a later Read, called with the
\* context cancelled, received a payload chunk and returned its bytes
C36_Witness ==
    /\ pc = "idle"
    /\ ctxDone
    /\ firstErr = ErrCanceled
    /\ lastEvent.kind = "chunk"
    /\ readErr = ErrNil
    /\ readN > 0
    /\ delivered # <<>>


\* ---------------------------------------------------------------- C37
\* C37: a Read called with a buffer of at least one byte never returns 0
\* bytes together with a nil error: it returns at least one byte or a
\* non-nil error, also when it receives a payload chunk of length zero.
C37_NoZeroNil ==
    [][ (ReadReturned /\ plen >= 1 /\ readErr' = ErrNil) => readN' >= 1 ]_vars


\* ================================ a finite event sequence, read to its end
\* The stream delivers a finite sequence of events and then closes the
\* channel: the sequence ends with the clean completion event, or the
\* connection ends before one comes.  The consumer calls Read with buffers
\* of 1 .. MaxRead bytes.

\* the payload chunks of a sequence are at most
MaxChunks == 3

DrainInit ==
    /\ InitTransport
    /\ fnCall = NoCall
    /\ bodies = NoBodies
    /\ script \in LET Unfinished(c) == SubSeq(ScriptOf(c), 1, Len(c))
                     Short == { c \in Chunkings : Len(c) <= MaxChunks }
                 IN  { ScriptOf(c) : c \in Short } \cup { Unfinished(c) : c \in Short }

\* the script sent and its last event received, the channel is closed
CloseScripted ==
    /\ script = <<>>
    /\ CloseChannel

DrainNext ==
    \/ ChunkNext
    \/ CloseScripted

\* every event of the sequence is delivered and the channel closed after the
\* last; a Read waiting in the select runs once an event is ready; the
\* consumer goes on calling Read
DrainSpec ==
    /\ DrainInit
    /\ [][DrainNext]_vars
    /\ WF_vars(ProduceScripted)
    /\ WF_vars(CloseScripted)
    /\ WF_vars(ReadRecv)
    /\ WF_vars(\E n \in 1 .. MaxRead : ReadBuffered(n) \/ ReadBlock(n))

\* ---------------------------------------------------------------- C38
\* the number of events of the sequence, received or not
EventCount == Len(sent) + Len(script)
\* the number of body bytes of the sequence: those after the first separator
BodyCount ==
    LET idx == LeftmostZeros(StreamBytes, 0)
    IN  IF idx < 0 THEN 0 ELSE Len(StreamBytes) - idx - 8

\* C38: for a finite event sequence that is fully delivered and ends with a
\* completion event or a closed channel, a consumer calling Read with
\* buffers of at least one byte until the first non-nil error makes at most
\* (body bytes + events) calls; every call that returns no error has taken
\* a byte of the leftover or an event of the sequence; no Read blocks
\* forever, and the consumer reaches a non-nil error unless it closes the
\* body first.
C38_ReadsTerminate ==
    /\ [](reads <= BodyCount + EventCount)
    /\ [][ (reads' = reads + 1 /\ readErr' = ErrNil) =>
               Len(delivered') + Consumed' > Len(delivered) + Consumed ]_vars
    /\ (pc = "read" /\ firstErr = ErrNil) ~> (pc # "read")
    /\ HasBody ~> (firstErr # ErrNil \/ pc = "closed")

\* a stream cut so that an empty chunk follows the body, its connection ended
\* before a completion event, was read one byte at a time: as many Reads as
\* body bytes and events, the last one failing on the closed channel
C38_Witness ==
    /\ pc = "idle"
    /\ script = <<>>
    /\ chClosed
    /\ \A i \in 1 .. Len(sent) : sent[i].kind = "chunk"
    /\ sent[Len(sent)].payload = <<>>
    /\ Len(delivered) = 2
    /\ BodyCount = 2
    /\ reads = BodyCount + EventCount
    /\ firstErr = ErrUnexpectedEOF
    /\ readErr = ErrUnexpectedEOF
====
